---- MODULE Spec2Model ----
(***************************************************************************)
(* sqlite-mcp: the request pipeline of QueryService.process_mcp_request    *)
(* (utils/query_utils.py), the storage calls it issues on DatabaseManager  *)
(* (utils/database.py) and the text the query tool builds from the         *)
(* response envelope (SQLiteService.query_table).                          *)
(*                                                                         *)
(* Strings are sequences of one-character strings, so that the regular     *)
(* expressions and the normalisation of names are computed, not assumed.   *)
(***************************************************************************)
EXTENDS Integers, Sequences, FiniteSets, TLC

VARIABLES
    pc,            \* position of the request in query_table / process_mcp_request
    request,       \* the MCPRequest being served
    db,            \* the database behind the DatabaseManager
    table_name,    \* process_mcp_request: table_name
    table_schema,  \* process_mcp_request: table_schema
    calls,         \* DatabaseManager methods called for this request, in order
    response,      \* the MCPResponse process_mcp_request returned, if any
    raised,        \* the exception process_mcp_request let escape, if any
    text,          \* the text query_table returned, if any
    served,        \* requests received so far
    today,         \* date.today(), as an ordinal
    query_filter,  \* process_mcp_request: query_filter, once extracted
    row_count,     \* process_mcp_request: row_count
    plan,          \* sql, params, auto_applied of _build_sql_query, if any
    where_conditions,  \* the conditions handed to estimate_query_cost
    estimated_rows,    \* what estimate_query_cost returned, if anything
    sampling_sql,   \* what _add_sampling returned, if anything
    extracted,     \* the runs of extract_query_components so far, in order
    local,         \* DatabaseManager._local: the connection attribute of each thread
    connections,   \* the connections sqlite3.connect has returned, in order
    using,         \* the connection each thread holds inside `with get_cursor()`
    managers       \* the DatabaseManager instances constructed so far, as one thread sees them

\* the variables of one request
requestVars == <<pc, request, table_name, table_schema, response, raised>>

\* the variables of the server around it
serverVars == <<db, calls, text, served>>

\* the variables of query synthesis
planVars == <<today, query_filter, row_count, plan>>

\* the variables of cost estimation and sampling
costVars == <<where_conditions, estimated_rows, sampling_sql>>

\* extract_query_components across requests
extractVars == <<extracted>>

\* the DatabaseManager and the threads calling it
connVars == <<local, connections, using, managers>>

vars == <<requestVars, serverVars, planVars, costVars, extractVars, connVars>>

(***************************************************************************)
(* Characters and strings                                                  *)
(***************************************************************************)
LowerSeq ==
    <<"a","b","c","d","e","f","g","h","i","j","k","l","m",
      "n","o","p","q","r","s","t","u","v","w","x","y","z">>

UpperSeq ==
    <<"A","B","C","D","E","F","G","H","I","J","K","L","M",
      "N","O","P","Q","R","S","T","U","V","W","X","Y","Z">>

LowerLetters == {LowerSeq[i] : i \in 1..26}

UpperLetters == {UpperSeq[i] : i \in 1..26}

Digits == {"0","1","2","3","4","5","6","7","8","9"}

\* \s of the re module, restricted to the white space the inputs use
Whitespace == {" ", "\t", "\n"}

\* str.lower() on one character
LowerChar(c) ==
    IF c \in UpperLetters
    THEN LowerSeq[CHOOSE i \in 1..26 : UpperSeq[i] = c]
    ELSE c

\* str.upper() on one character
UpperChar(c) ==
    IF c \in LowerLetters
    THEN UpperSeq[CHOOSE i \in 1..26 : LowerSeq[i] = c]
    ELSE c

\* str.lower()
Lower(s) == [i \in 1..Len(s) |-> LowerChar(s[i])]

\* s[i:j] of Python, 1-based and inclusive
Slice(s, i, j) == IF j < i THEN <<>> ELSE SubSeq(s, i, j)

RECURSIVE LStrip(_)
LStrip(s) ==
    IF s # <<>> /\ Head(s) \in Whitespace THEN LStrip(Tail(s)) ELSE s

RECURSIVE RStrip(_)
RStrip(s) ==
    IF s # <<>> /\ s[Len(s)] \in Whitespace
    THEN RStrip(SubSeq(s, 1, Len(s) - 1))
    ELSE s

\* str.strip()
Strip(s) == RStrip(LStrip(s))

\* a literal of a pattern matches at position i (under re.IGNORECASE when ic)
LitAt(s, i, lit, ic) ==
    /\ i >= 1
    /\ i + Len(lit) - 1 <= Len(s)
    /\ \A k \in 1..Len(lit) :
          IF ic THEN LowerChar(s[i + k - 1]) = LowerChar(lit[k])
                ELSE s[i + k - 1] = lit[k]

\* end of the maximal run of characters of the set cls that starts at i
\* (i - 1 when the run is empty)
RECURSIVE RunEnd(_, _, _)
RunEnd(s, i, cls) ==
    IF i <= Len(s) /\ s[i] \in cls THEN RunEnd(s, i + 1, cls) ELSE i - 1

\* a character class under re.IGNORECASE: a character matches when either
\* of its cases is in the class
IgnoreCaseClass(cls) ==
    cls \cup {LowerChar(c) : c \in cls} \cup {UpperChar(c) : c \in cls}

\* str.upper()
Upper(s) == [i \in 1..Len(s) |-> UpperChar(s[i])]

\* str.find(lit, start): the first position from start on where lit occurs
\* (case-sensitive), 0 when there is none
Find(s, lit, start) ==
    LET hits == {i \in start..(Len(s) - Len(lit) + 1) : LitAt(s, i, lit, FALSE)}
    IN  IF hits = {} THEN 0
        ELSE CHOOSE i \in hits : \A j \in hits : i <= j

\* `lit in s`
SubstringOf(lit, s) == Find(s, lit, 1) # 0

\* str.replace(old, new, 1)
ReplaceFirst(s, old, new) ==
    LET i == Find(s, old, 1)
    IN  IF i = 0 THEN s
        ELSE Slice(s, 1, i - 1) \o new \o Slice(s, i + Len(old), Len(s))

\* sep.join(parts)
RECURSIVE Join(_, _)
Join(parts, sep) ==
    IF parts = <<>> THEN <<>>
    ELSE IF Len(parts) = 1 THEN parts[1]
    ELSE parts[1] \o sep \o Join(Tail(parts), sep)

\* an assignment to a local name: value is computed once, and Body is the
\* code that follows, reading the name
With(value, Body(_)) == CHOOSE r \in {Body(x) : x \in {value}} : TRUE

\* str.split(ch) for a one-character separator: the parts between the
\* places of ch, the two ends included
Split(s, ch) ==
    With(<<0>> \o SelectSeq([i \in 1..Len(s) |-> i], LAMBDA i : s[i] = ch)
               \o <<Len(s) + 1>>, LAMBDA cuts :
        [k \in 1..(Len(cuts) - 1) |-> Slice(s, cuts[k] + 1, cuts[k + 1] - 1)])

\* str.strip(chars)
RECURSIVE StripChars(_, _)
StripChars(s, chars) ==
    IF s # <<>> /\ Head(s) \in chars THEN StripChars(Tail(s), chars)
    ELSE IF s # <<>> /\ s[Len(s)] \in chars
    THEN StripChars(SubSeq(s, 1, Len(s) - 1), chars)
    ELSE s

DigitSeq == <<"0","1","2","3","4","5","6","7","8","9">>

\* str(n) of a natural number
RECURSIVE IntToStr(_)
IntToStr(n) ==
    IF n < 10 THEN <<DigitSeq[n + 1]>>
    ELSE IntToStr(n \div 10) \o <<DigitSeq[(n % 10) + 1]>>

\* int(s) of a run of digits
RECURSIVE StrToInt(_)
StrToInt(s) ==
    IF s = <<>> THEN 0
    ELSE StrToInt(SubSeq(s, 1, Len(s) - 1)) * 10
         + (CHOOSE d \in 0..9 : DigitSeq[d + 1] = s[Len(s)])

(***************************************************************************)
(* datetime.date: a date is its proleptic Gregorian ordinal                *)
(* (date.toordinal()), so that timedelta arithmetic is integer arithmetic  *)
(***************************************************************************)
\* date.weekday(): Monday is 0
Weekday(d) == (d + 6) % 7

\* year, month and day of an ordinal
CivilFromOrdinal(d) ==
    LET z   == d + 305
        era == z \div 146097
        doe == z - era * 146097
        yoe == (doe - doe \div 1460 + doe \div 36524 - doe \div 146096) \div 365
        doy == doe - (365 * yoe + yoe \div 4 - yoe \div 100)
        mp  == (5 * doy + 2) \div 153
        m   == IF mp < 10 THEN mp + 3 ELSE mp - 9
    IN  [year  |-> yoe + era * 400 + (IF m <= 2 THEN 1 ELSE 0),
         month |-> m,
         day   |-> doy - (153 * mp + 2) \div 5 + 1]

\* a number zero-padded to two digits
TwoDigits(n) == IF n < 10 THEN <<"0">> \o IntToStr(n) ELSE IntToStr(n)

\* date.isoformat() for a four-digit year
IsoFormat(d) ==
    LET c == CivilFromOrdinal(d)
    IN  IntToStr(c.year) \o <<"-">> \o TwoDigits(c.month) \o <<"-">>
        \o TwoDigits(c.day)

\* date.replace(day=1)
FirstOfMonth(d) == d - (CivilFromOrdinal(d).day - 1)

(***************************************************************************)
(* Optional values of the pydantic models                                  *)
(***************************************************************************)
None == [some |-> FALSE]

Some(v) == [some |-> TRUE, val |-> v]

(***************************************************************************)
(* Configuration (utils/config.py)                                         *)
(***************************************************************************)
MAX_ROWS_BUDGET == 1000000

\* SAMPLING_RATE = 0.01, as a percentage
SAMPLING_RATE_PERCENT == 1

(***************************************************************************)
(* Bounds and inputs                                                       *)
(***************************************************************************)
\* requests the server handles in one run
MaxRequests == 2

kwSelect == <<"s","e","l","e","c","t">>

kwFrom == <<"f","r","o","m">>

nmWidgets == <<"w","i","d","g","e","t","s">>

nmGhost == <<"g","h","o","s","t">>

SP == <<" ">>

\* "select * from widgets"
TextSelectStar == kwSelect \o SP \o <<"*">> \o SP \o kwFrom \o SP \o nmWidgets

\* "from ghost"
TextFromGhost == kwFrom \o SP \o nmGhost

\* "FROM  Main.Widgets"
TextFromDotted ==
    <<"F","R","O","M"," "," ","M","a","i","n",".","W","i","d","g","e","t","s">>

\* "from_x from * from widgets": only the third `from` is followed by a name
TextFromLater ==
    kwFrom \o <<"_","x">> \o SP \o kwFrom \o SP \o <<"*">> \o SP
        \o kwFrom \o SP \o nmWidgets

\* "widgets": no `from` at all
TextNoFrom == nmWidgets

UserTexts ==
    {<<>>, TextSelectStar, TextFromGhost, TextFromDotted, TextFromLater,
     TextNoFrom}

\* MCPRequest.table is a required str: "" stands for "not given"
TableFields ==
    {<<>>, nmWidgets, nmGhost, <<" ","W","i","d","g","e","t","s">>,
     <<"m","a","i","n",".","W","i","d","g","e","t","s">>}

RowsBudgets == {None, Some(0), Some(10), Some(1000000)}

Limits == {None, Some(10)}

\* the tables of the database and the schema of each (lower-cased column
\* name -> normalized type tag)
DbTables == {nmWidgets}

WidgetsSchema == <<[name |-> <<"i","d">>, type |-> <<"I","N","T","E","G","E","R">>],
                   [name |-> <<"n","a","m","e">>, type |-> <<"T","E","X","T">>]>>

RowCounts == {0, 5, 50000, 2000000, 200000000}

\* the storage call that fails with sqlite3.Error during the request
StorageFaults == {"none", "table_exists", "get_table_schema"}

(***************************************************************************)
(* utils/utils.py                                                          *)
(***************************************************************************)
\* positions of "." in s
DotPositions(s) == {i \in 1..Len(s) : s[i] = "."}

\* normalize_table_ref: the last dotted part as it stands when there is a
\* dot, otherwise the name lower-cased and stripped
normalize_table_ref(table_ref) ==
    IF DotPositions(table_ref) # {}
    THEN LET last == CHOOSE i \in DotPositions(table_ref) :
                         \A j \in DotPositions(table_ref) : j <= i
         IN  Slice(table_ref, last + 1, Len(table_ref))
    ELSE Strip(Lower(table_ref))

(***************************************************************************)
(* QueryService._determine_table_ref (utils/query_utils.py)                *)
(***************************************************************************)
\* the flag of re.search(r"from\s+([azA-Z0-9_\.]+)", ..., re.IGNORECASE)
FromIgnoreCase == TRUE

\* the character class [azA-Z0-9_\.] as written
FromNameClass ==
    LET written == {"a", "z"} \cup UpperLetters \cup Digits \cup {"_", "."}
    IN  IF FromIgnoreCase THEN IgnoreCaseClass(written) ELSE written

\* from\s+([azA-Z0-9_\.]+) matches with `from` at position i
FromMatchAt(s, i) ==
    /\ LitAt(s, i, kwFrom, FromIgnoreCase)
    /\ LET ws == RunEnd(s, i + 4, Whitespace)
       IN  /\ ws >= i + 4
           /\ RunEnd(s, ws + 1, FromNameClass) >= ws + 1

\* re.search: group(1) of the leftmost match, None when there is none
FromSearch(s) ==
    LET hits == {i \in 1..Len(s) : FromMatchAt(s, i)}
    IN  IF hits = {} THEN None
        ELSE LET i  == CHOOSE h \in hits : \A g \in hits : h <= g
                 ws == RunEnd(s, i + 4, Whitespace)
             IN  Some(Slice(s, ws + 1, RunEnd(s, ws + 1, FromNameClass)))

ValueErrorNoTable ==
    [type |-> "ValueError",
     msg  |-> "Table name could not be determined from the request."]

\* _determine_table_ref with the two sources tried in the other order
determine_table_ref_text_first(req) ==
    IF FromSearch(req.user_text).some
    THEN [ok |-> TRUE, val |-> FromSearch(req.user_text).val]
    ELSE IF req.table # <<>>
    THEN [ok |-> TRUE, val |-> normalize_table_ref(req.table)]
    ELSE [ok |-> FALSE, exc |-> ValueErrorNoTable]

\* _determine_table_ref: [ok |-> TRUE, val |-> name] or the exception raised
determine_table_ref(req) ==
    IF req.table # <<>>
    THEN [ok |-> TRUE, val |-> normalize_table_ref(req.table)]
    ELSE IF FromSearch(req.user_text).some
    THEN [ok |-> TRUE, val |-> FromSearch(req.user_text).val]
    ELSE [ok |-> FALSE, exc |-> ValueErrorNoTable]

(***************************************************************************)
(* DatabaseManager (utils/database.py)                                     *)
(***************************************************************************)
\* the public methods the class defines
DatabaseManagerMethods ==
    {"get_connection", "get_cursor", "execute_query",
     "execute_query_with_timeout", "get_table_schema", "get_table_info",
     "table_exists", "get_row_count", "get_all_tables", "close"}

SqliteError == [type |-> "sqlite3.Error", msg |-> "database error"]

\* attribute lookup of a method on the manager
AttributeErrorFor(method) ==
    [type |-> "AttributeError",
     msg  |-> "'DatabaseManager' object has no attribute"]

\* table_exists: SELECT name FROM sqlite_master WHERE type='table' AND name=?
table_exists(d, name) ==
    IF d.fault = "table_exists"
    THEN [ok |-> FALSE, exc |-> SqliteError]
    ELSE [ok |-> TRUE, val |-> name \in d.tables]

ValueErrorNoSuchTable ==
    [type |-> "ValueError", msg |-> "Table does not exist."]

\* get_table_schema: PRAGMA table_info; no row means no such table
get_table_schema(d, name) ==
    IF d.fault = "get_table_schema"
    THEN [ok |-> FALSE, exc |-> SqliteError]
    ELSE IF name \notin d.tables
    THEN [ok |-> FALSE, exc |-> ValueErrorNoSuchTable]
    ELSE [ok |-> TRUE, val |-> d.schema]

(***************************************************************************)
(* MCPResponse (utils/models.py) and the envelopes process_mcp_request     *)
(* builds                                                                  *)
(***************************************************************************)
MCPResponse(sql_preview, params, auto_applied, rows, note, est_rows, execution_time) ==
    [sql_preview    |-> sql_preview,
     params         |-> params,
     auto_applied   |-> auto_applied,
     rows           |-> rows,
     note           |-> note,
     estimated_rows |-> est_rows,
     execution_time |-> execution_time]

\* query_utils.py 161-166, without the note
TableMissingResponseNoNote(name) ==
    MCPResponse(<<>>, <<>>, <<>>, None, None, None, None)

\* query_utils.py 161-166
TableMissingResponse(name) ==
    MCPResponse(<<>>, <<>>, <<>>, None,
                Some([kind |-> "table_missing", table |-> name]),
                None, None)

\* query_utils.py 242-247
ErrorResponse(exc) ==
    MCPResponse(<<>>, <<>>, <<>>, None,
                Some([kind |-> "processing_error", exc |-> exc]),
                None, None)

\* `except ValueError` in place of `except Exception`
CaughtValueErrorOnly(exc) == exc.type = "ValueError"

\* `except Exception as e` (query_utils.py 240): every exception the
\* pipeline can raise derives from Exception
Caught(exc) ==
    exc.type \in {"ValueError", "sqlite3.Error", "AttributeError",
                  "UnboundLocalError"}

\* the table-missing test that never short-circuits
TableAbsentNever(exists) == FALSE

\* `if not self._db_manager.table_exists(table_name)` (query_utils.py 160)
TableAbsent(exists) == ~exists

(***************************************************************************)
(* SQLiteService.query_table: marshalling of the envelope                  *)
(***************************************************************************)
\* hasattr(response, "estimated_rows"): MCPResponse declares the field, so
\* the attribute exists whatever its value
HasEstimatedRows(resp) == "estimated_rows" \in DOMAIN resp

TypeErrorFormatNone ==
    [type |-> "TypeError",
     msg  |-> "unsupported format string passed to NoneType.__format__"]

Section(label, value) == <<[label |-> label, value |-> value]>>

\* the body of the try block after process_mcp_request has returned resp
query_table_text(resp) ==
    IF HasEstimatedRows(resp) /\ ~resp.estimated_rows.some
    THEN \* f"{None:,}" raises; the handler returns the error text
         [error |-> TRUE, exc |-> TypeErrorFormatNone, parts |-> <<>>]
    ELSE [error |-> FALSE,
          parts |->
              (IF resp.sql_preview # <<>>
               THEN Section("SQL Query", resp.sql_preview) ELSE <<>>)
           \o (IF resp.params # <<>>
               THEN Section("Parameters", resp.params) ELSE <<>>)
           \o (IF resp.auto_applied # <<>>
               THEN Section("Auto Applied", resp.auto_applied) ELSE <<>>)
           \o (IF HasEstimatedRows(resp)
               THEN Section("Estimated Rows", resp.estimated_rows.val)
               ELSE <<>>)
           \o (IF resp.rows.some /\ resp.rows.val # <<>>
               THEN Section("Rows", resp.rows.val) ELSE <<>>)
           \o (IF resp.note.some
               THEN Section("Note", resp.note.val) ELSE <<>>)
           \o (IF resp.execution_time.some /\ resp.execution_time.val # 0
               THEN Section("Execution Time", resp.execution_time.val)
               ELSE <<>>)]

(***************************************************************************)
(* Dictionaries keep insertion order: a dict is a sequence of entries with *)
(* distinct keys                                                           *)
(***************************************************************************)
HasKey(d, k) == \E i \in 1..Len(d) : d[i].key = k

\* d[k]
Lookup(d, k) == d[CHOOSE i \in 1..Len(d) : d[i].key = k]

\* d[k] = entry: an existing key keeps its place
DictSet(d, entry) ==
    IF HasKey(d, entry.key)
    THEN [i \in 1..Len(d) |-> IF d[i].key = entry.key THEN entry ELSE d[i]]
    ELSE Append(d, entry)

\* truth value of an Optional[str]
Truthy(o) == o.some /\ o.val # <<>>

\* str.endswith / str.startswith
EndsWith(s, lit) == LitAt(s, Len(s) - Len(lit) + 1, lit, FALSE)

StartsWith(s, lit) == LitAt(s, 1, lit, FALSE)

(***************************************************************************)
(* utils/utils.py: find_date_column, build_where_clause,                   *)
(* estimate_query_cost                                                     *)
(***************************************************************************)
\* utils/config.py
DATE_COLUMN_CANDIDATES ==
    <<<<"d","a","t","e">>, <<"c","r","e","a","t","e","d","_","a","t">>, <<"u","p","d","a","t","e","d","_","a","t">>, <<"t","i","m","e","s","t","a","m","p">>, <<"t","i","m","e">>,
      <<"d","a","t","e","t","i","m","e">>, <<"s","t","a","r","t","_","d","a","t","e">>, <<"e","n","d","_","d","a","t","e">>>>

\* a schema is the dict get_table_schema returns: column name -> type
SchemaHas(schema, name) == \E i \in 1..Len(schema) : schema[i].name = name

SchemaType(schema, name) ==
    schema[CHOOSE i \in 1..Len(schema) : schema[i].name = name].type

\* schema_lower of find_date_column; a name two keys lower-case to keeps
\* the place of the first and the type of the last
SchemaLower(schema) ==
    With([i \in 1..Len(schema) |->
             [name |-> Lower(schema[i].name),
              type |-> Lower(schema[i].type)]], LAMBDA low :
    With(SelectSeq([i \in 1..Len(low) |-> i],
                   LAMBDA i : \A k \in 1..(i - 1) :
                                 low[k].name # low[i].name), LAMBDA firsts :
        LET lastOf(i) == CHOOSE j \in 1..Len(low) :
                            /\ low[j].name = low[i].name
                            /\ \A k \in 1..Len(low) :
                                  low[k].name = low[i].name => k <= j
        IN  [n \in 1..Len(firsts) |->
                [name |-> low[firsts[n]].name,
                 type |-> low[lastOf(firsts[n])].type]]))

\* the candidate qualifies: it is a column whose type names a date
DateCandidateQualifies(schema_lower, candidate) ==
    /\ SchemaHas(schema_lower, candidate)
    /\ \E data_type \in {Upper(SchemaType(schema_lower, candidate))} :
          \E dt \in {<<"D","A","T","E">>, <<"T","I","M","E","S","T","A","M","P">>, <<"D","A","T","E","T","I","M","E">>} :
              SubstringOf(dt, data_type)

find_date_column(schema) ==
    With(SchemaLower(schema), LAMBDA schema_lower :
    With({i \in 1..Len(DATE_COLUMN_CANDIDATES) :
             DateCandidateQualifies(schema_lower, DATE_COLUMN_CANDIDATES[i])},
         LAMBDA hits :
        IF hits = {} THEN None
        ELSE Some(DATE_COLUMN_CANDIDATES[
                     CHOOSE i \in hits : \A j \in hits : i <= j])))

\* f"param{param_counter}"
ParamName(param_counter) == <<"p","a","r","a","m">> \o IntToStr(param_counter)

\* lines 173-178: one LIKE condition for every column of the schema
RECURSIVE LikeEveryColumn(_, _, _, _)
LikeEveryColumn(acc, schema, i, value) ==
    IF i > Len(schema) THEN acc
    ELSE LET param_name == ParamName(acc.param_counter)
         IN  LikeEveryColumn(
                 [where_clauses |->
                      Append(acc.where_clauses,
                             schema[i].name \o <<" ","L","I","K","E"," ",":">> \o param_name),
                  params |-> DictSet(acc.params,
                                     [key |-> param_name,
                                      value |-> [str |-> value]]),
                  param_counter |-> acc.param_counter + 1],
                 schema, i + 1, value)

\* lines 179-187: key IN (:paramN_0, :paramN_1, ...)
RECURSIVE InParams(_, _, _, _)
InParams(params, param_name, values, i) ==
    IF i > Len(values) THEN params
    ELSE InParams(DictSet(params,
                          [key |-> param_name \o <<"_">> \o IntToStr(i - 1),
                           value |-> [str |-> values[i]]]),
                  param_name, values, i + 1)

InFilter(acc, schema, f) ==
    IF ~SchemaHas(schema, f.key) THEN acc
    ELSE LET param_name == ParamName(acc.param_counter)
             placeholders ==
                 Join([i \in 1..Len(f.value) |->
                          <<":">> \o param_name \o <<"_">> \o IntToStr(i - 1)],
                      <<","," ">>)
         IN  [where_clauses |->
                  Append(acc.where_clauses,
                         f.key \o <<" ","I","N"," ","(">> \o placeholders \o <<")">>),
              params |-> InParams(acc.params, param_name, f.value, 1),
              param_counter |-> acc.param_counter + 1]

\* str(value).lower() in ("1","true","yes","on","y","t")
BoolValue(value) ==
    Lower(value) \in {<<"1">>, <<"t","r","u","e">>, <<"y","e","s">>, <<"o","n">>, <<"y">>, <<"t">>}

\* lines 188-200: key = :paramN, an is_ column of integer type gets 1 or 0
EqualityFilter(acc, schema, f) ==
    IF ~SchemaHas(schema, f.key) THEN acc
    ELSE LET param_name == ParamName(acc.param_counter)
             data_type == Upper(SchemaType(schema, f.key))
             coerced == /\ data_type \in {<<"I","N","T","E","G","E","R">>, <<"I","N","T">>}
                        /\ StartsWith(f.key, <<"i","s","_">>)
         IN  [where_clauses |->
                  Append(acc.where_clauses,
                         f.key \o <<" ","="," ",":">> \o param_name),
              params |->
                  DictSet(acc.params,
                          [key |-> param_name,
                           value |-> IF coerced
                                     THEN [int |-> IF BoolValue(f.value)
                                                   THEN 1 ELSE 0]
                                     ELSE [str |-> f.value]]),
              param_counter |-> acc.param_counter + 1]

\* the loop over filters.items() (lines 172-200)
RECURSIVE WhereLoop(_, _, _, _)
WhereLoop(acc, filters, schema, i) ==
    IF i > Len(filters) THEN acc
    ELSE LET f == filters[i]
         IN  WhereLoop(
                 IF EndsWith(f.key, <<"_","l","i","k","e">>)
                 THEN LikeEveryColumn(acc, schema, 1, f.value)
                 ELSE IF f.list THEN InFilter(acc, schema, f)
                 ELSE EqualityFilter(acc, schema, f),
                 filters, schema, i + 1)

build_where_clause(filters, schema, start_date, end_date, date_column) ==
    LET dated == Truthy(start_date) /\ Truthy(end_date) /\ Truthy(date_column)
        first ==
            IF dated
            THEN [where_clauses |->
                      <<date_column.val
                        \o <<" ","B","E","T","W","E","E","N"," ",":","s","t","a","r","t","_","d","a","t","e"," ","A","N","D"," ",":","e","n","d","_","d","a","t","e">>>>,
                  params |-> <<[key |-> <<"s","t","a","r","t","_","d","a","t","e">>,
                                value |-> [str |-> start_date.val]],
                               [key |-> <<"e","n","d","_","d","a","t","e">>,
                                value |-> [str |-> end_date.val]]>>,
                  param_counter |-> 1]
            ELSE [where_clauses |-> <<>>, params |-> <<>>,
                  param_counter |-> 1]
        last == WhereLoop(first, filters, schema, 1)
    IN  [where_clauses |-> last.where_clauses, params |-> last.params]

Max(a, b) == IF a >= b THEN a ELSE b

\* the body of the loop of estimate_query_cost for one condition
\* (lines 218-225)
EstimateFor(condition, rc) ==
    IF SubstringOf(<<"=">>, condition) THEN Max(1, rc \div 10)
    ELSE IF SubstringOf(<<"I","N">>, condition) THEN Max(1, rc \div 5)
    ELSE IF SubstringOf(<<"L","I","K","E">>, condition) THEN Max(1, rc \div 2)
    ELSE rc

\* the loop assigns est for every condition in turn
RECURSIVE EstimateLoop(_, _, _)
EstimateLoop(conds, rc, est) ==
    IF conds = <<>> THEN est
    ELSE EstimateLoop(Tail(conds), rc,
                      EstimateFor(Head(conds), rc))

\* an estimator that keeps the most selective condition
estimate_query_cost_most_selective(tbl, conds, rc) ==
    IF conds = <<>> THEN rc
    ELSE LET each == {EstimateFor(conds[i], rc) :
                         i \in 1..Len(conds)}
         IN  CHOOSE e \in each : \A o \in each : e <= o

estimate_query_cost(tbl, conds, rc) ==
    IF conds = <<>> THEN rc
    ELSE EstimateLoop(Tail(conds), rc,
                      EstimateFor(Head(conds), rc))

(***************************************************************************)
(* extract_query_components (utils/utils.py 28-122).  Every pattern is     *)
(* searched with re.IGNORECASE; a match is the leftmost one, its groups    *)
(* are the greedy ones.                                                    *)
(***************************************************************************)
\* [a-zA-Z0-9_]
WordClass == LowerLetters \cup UpperLetters \cup Digits \cup {"_"}

\* [a-zA-Z0-9_,\s*]
ListClass == WordClass \cup {",", "*"} \cup Whitespace

\* ['"]
QuoteClass == {"'", "\""}

Leftmost(hits) == CHOOSE i \in hits : \A j \in hits : i <= j

Rightmost(hits) == CHOOSE i \in hits : \A j \in hits : j <= i

NoMatch == [ok |-> FALSE]

\* end of the maximal run of characters outside the set cls that starts
\* at i (i - 1 when the run is empty)
RECURSIVE RunEndNot(_, _, _)
RunEndNot(s, i, cls) ==
    IF i <= Len(s) /\ s[i] \notin cls THEN RunEndNot(s, i + 1, cls) ELSE i - 1

\* \s+ followed by the literal lit, from position i: the end of lit
WsThenLit(s, i, lit) ==
    With(RunEnd(s, i, Whitespace), LAMBDA e :
        IF e >= i /\ LitAt(s, e + 1, lit, TRUE)
        THEN [ok |-> TRUE, end |-> e + Len(lit)]
        ELSE NoMatch)

\* \s* followed by the literal lit, from position i: the end of lit
OptWsThenLit(s, i, lit) ==
    With(RunEnd(s, i, Whitespace), LAMBDA e :
        IF LitAt(s, e + 1, lit, TRUE)
        THEN [ok |-> TRUE, end |-> e + Len(lit)]
        ELSE NoMatch)

\* ['"]([^"']+)['"] with the opening quote at position i
Quoted(s, i) ==
    With(RunEndNot(s, i + 1, QuoteClass), LAMBDA e :
        IF /\ i >= 1 /\ i <= Len(s) /\ s[i] \in QuoteClass
           /\ e >= i + 1
           /\ e + 1 <= Len(s)
        THEN [ok |-> TRUE, group |-> Slice(s, i + 1, e), end |-> e + 1]
        ELSE NoMatch)

\* \s+([a-zA-Z0-9_,\s*]+) from position i: \s+ gives white space back to
\* the group only when the group would otherwise be empty
WsThenList(s, i) ==
    With(RunEnd(s, i, Whitespace), LAMBDA e :
    With(RunEnd(s, e + 1, ListClass), LAMBDA r :
        IF e < i THEN NoMatch
        ELSE IF r >= e + 1
        THEN [ok |-> TRUE, group |-> Slice(s, e + 1, r), end |-> r]
        ELSE IF e >= i + 1
        THEN [ok |-> TRUE, group |-> Slice(s, e, e), end |-> e]
        ELSE NoMatch))

\* select\s+([a-zA-Z0-9_,\s*]+)\s+from with `select` at position i: the
\* group ends as far right as a `\s+from` allows
SelectMatchAt(s, i) ==
    IF ~LitAt(s, i, kwSelect, TRUE) THEN NoMatch
    ELSE With(RunEnd(s, i + 6, Whitespace), LAMBDA e :
         With(RunEnd(s, i + 7, ListClass), LAMBDA r :
         With({g \in (i + 7)..r : WsThenLit(s, g + 1, kwFrom).ok}, LAMBDA ends :
             IF e < i + 6 \/ ends = {} THEN NoMatch
             ELSE With(Rightmost(ends), LAMBDA g :
                      [ok |-> TRUE,
                       group |-> Slice(s, IF g >= e + 1 THEN e + 1 ELSE g, g)]))))

\* re.search of the select pattern
SelectSearch(s) ==
    With({i \in 1..Len(s) : SelectMatchAt(s, i).ok}, LAMBDA hits :
        IF hits = {} THEN NoMatch ELSE SelectMatchAt(s, Leftmost(hits)))

\* [col.strip() for col in group.split(",") if col.strip() ...]
StrippedParts(group) ==
    With(Split(group, ","), LAMBDA parts :
        SelectSeq([k \in 1..Len(parts) |-> Strip(parts[k])],
                  LAMBDA col : col # <<>>))

\* lines 43: the parts of the select list, without `*`
SelectColumns(group) ==
    SelectSeq(StrippedParts(group), LAMBDA col : col # <<"*">>)

\* ([a-zA-Z0-9_]+)\s+in\s*\(([^)]+)\) with the word at position i
InMatchAt(s, i) ==
    With(RunEnd(s, i, WordClass), LAMBDA w :
    With(WsThenLit(s, w + 1, <<"i","n">>), LAMBDA k :
    With(IF k.ok THEN OptWsThenLit(s, k.end + 1, <<"(">>) ELSE NoMatch, LAMBDA p :
    With(IF p.ok THEN RunEndNot(s, p.end + 1, {")"}) ELSE 0, LAMBDA e :
        IF w >= i /\ p.ok /\ e >= p.end + 1 /\ e + 1 <= Len(s)
        THEN [ok |-> TRUE, group1 |-> Slice(s, i, w),
              group2 |-> Slice(s, p.end + 1, e), end |-> e + 1]
        ELSE NoMatch))))

\* [v.strip().strip("'\"") for v in group.split(",") if v.strip()]
InValues(group) ==
    With(StrippedParts(group), LAMBDA parts :
        [k \in 1..Len(parts) |-> StripChars(parts[k], QuoteClass)])

\* the loop over re.finditer of the IN pattern (lines 54-58)
RECURSIVE InLoop(_, _, _)
InLoop(filters, s, from) ==
    With({i \in from..Len(s) : InMatchAt(s, i).ok}, LAMBDA hits :
        IF hits = {} THEN filters
        ELSE With(InMatchAt(s, Leftmost(hits)), LAMBDA m :
             With(Strip(m.group1), LAMBDA col :
             With([key |-> Lower(col), list |-> TRUE,
                   value |-> InValues(m.group2)], LAMBDA entry :
             With(DictSet(filters, entry), LAMBDA updated :
                 InLoop(updated, s, m.end + 1))))))

\* ([a-zA-Z0-9_]+)\s*=\s*([^\s,\)]+) with the word at position i
EqualityMatchAt(s, i) ==
    With(RunEnd(s, i, WordClass), LAMBDA w :
    With(OptWsThenLit(s, w + 1, <<"=">>), LAMBDA q :
    With(IF q.ok THEN RunEnd(s, q.end + 1, Whitespace) + 1 ELSE 0, LAMBDA v :
    With(IF q.ok THEN RunEndNot(s, v, Whitespace \cup {",", ")"}) ELSE 0, LAMBDA e :
        IF w >= i /\ q.ok /\ e >= v
        THEN [ok |-> TRUE, group1 |-> Slice(s, i, w),
              group2 |-> Slice(s, v, e), end |-> e]
        ELSE NoMatch))))

\* the words the equality loop skips (line 65)
SqlKeywords ==
    {<<"f","r","o","m">>, <<"s","e","l","e","c","t">>, <<"w","h","e","r","e">>, <<"l","i","m","i","t">>, <<"o","r","d","e","r">>, <<"g","r","o","u","p">>, <<"b","y">>}

\* the loop over re.finditer of the equality pattern (lines 61-70): a
\* keyword is skipped and a column that has a filter keeps it
RECURSIVE EqualityLoop(_, _, _)
EqualityLoop(filters, s, from) ==
    With({i \in from..Len(s) : EqualityMatchAt(s, i).ok}, LAMBDA hits :
        IF hits = {} THEN filters
        ELSE With(EqualityMatchAt(s, Leftmost(hits)), LAMBDA m :
             With(Strip(m.group1), LAMBDA stripped1 :
             With(Lower(stripped1), LAMBDA col :
             With(Strip(m.group2), LAMBDA stripped2 :
             With(StripChars(stripped2, QuoteClass), LAMBDA val :
             With(IF col \in SqlKeywords \/ HasKey(filters, col)
                  THEN filters
                  ELSE Append(filters,
                              [key |-> col, list |-> FALSE, value |-> val]),
                  LAMBDA updated :
                      EqualityLoop(updated, s, m.end + 1))))))))

\* ([a-zA-Z0-9_]+)\s+like\s*['"]([^"']+)['"] with the word at position i
LikeMatchAt(s, i) ==
    With(RunEnd(s, i, WordClass), LAMBDA w :
    With(WsThenLit(s, w + 1, <<"l","i","k","e">>), LAMBDA k :
    With(IF k.ok THEN RunEnd(s, k.end + 1, Whitespace) + 1 ELSE 0, LAMBDA o :
    With(IF k.ok THEN Quoted(s, o) ELSE NoMatch, LAMBDA q :
        IF w >= i /\ q.ok
        THEN [ok |-> TRUE, group1 |-> Slice(s, i, w), group2 |-> q.group,
              end |-> q.end]
        ELSE NoMatch))))

\* the loop over re.finditer of the LIKE pattern (lines 73-77)
RECURSIVE LikeLoop(_, _, _)
LikeLoop(filters, s, from) ==
    With({i \in from..Len(s) : LikeMatchAt(s, i).ok}, LAMBDA hits :
        IF hits = {} THEN filters
        ELSE With(LikeMatchAt(s, Leftmost(hits)), LAMBDA m :
             With(Strip(m.group1), LAMBDA col :
             With([key |-> Lower(col) \o <<"_","l","i","k","e">>,
                   list |-> FALSE,
                   value |-> Strip(m.group2)], LAMBDA entry :
             With(DictSet(filters, entry), LAMBDA updated :
                 LikeLoop(updated, s, m.end + 1))))))

\* ([a-zA-Z0-9_]+)\s+between\s+['"]([^"']+)['"]\s+and\s+['"]([^"']+)['"]
\* with the word at position i
BetweenMatchAt(s, i) ==
    With(RunEnd(s, i, WordClass), LAMBDA w :
    With(WsThenLit(s, w + 1, <<"b","e","t","w","e","e","n">>), LAMBDA k :
    With(IF k.ok THEN RunEnd(s, k.end + 1, Whitespace) ELSE 0, LAMBDA e1 :
    With(IF k.ok /\ e1 >= k.end + 1 THEN Quoted(s, e1 + 1) ELSE NoMatch, LAMBDA q1 :
    With(IF q1.ok THEN WsThenLit(s, q1.end + 1, <<"a","n","d">>) ELSE NoMatch, LAMBDA a :
    With(IF a.ok THEN RunEnd(s, a.end + 1, Whitespace) ELSE 0, LAMBDA e2 :
    With(IF a.ok /\ e2 >= a.end + 1 THEN Quoted(s, e2 + 1) ELSE NoMatch, LAMBDA q2 :
        IF w >= i /\ q2.ok
        THEN [ok |-> TRUE, group1 |-> Slice(s, i, w), group2 |-> q1.group,
              group3 |-> q2.group]
        ELSE NoMatch)))))))

BetweenSearch(s) ==
    With({i \in 1..Len(s) : BetweenMatchAt(s, i).ok}, LAMBDA hits :
        IF hits = {} THEN NoMatch ELSE BetweenMatchAt(s, Leftmost(hits)))

\* last\s+(\d+)\s+days with `last` at position i
LastDaysMatchAt(s, i) ==
    IF ~LitAt(s, i, <<"l","a","s","t">>, TRUE) THEN NoMatch
    ELSE With(RunEnd(s, i + 4, Whitespace), LAMBDA w :
         With(RunEnd(s, w + 1, Digits), LAMBDA n :
             IF /\ w >= i + 4
                /\ n >= w + 1
                /\ WsThenLit(s, n + 1, <<"d","a","y","s">>).ok
             THEN [ok |-> TRUE, group1 |-> Slice(s, w + 1, n)]
             ELSE NoMatch))

LastDaysSearch(s) ==
    With({i \in 1..Len(s) : LastDaysMatchAt(s, i).ok}, LAMBDA hits :
        IF hits = {} THEN NoMatch ELSE LastDaysMatchAt(s, Leftmost(hits)))

\* re.search(r"this\s+<unit>", ...) finds a match
ThisSearch(s, unit) ==
    \E i \in 1..Len(s) :
        LitAt(s, i, <<"t","h","i","s">>, TRUE) /\ WsThenLit(s, i + 4, unit).ok

\* the dates of lines 80-105: the BETWEEN pattern first, then `last N
\* days`, then `this week`, then `this month`
ExtractDates(s, day) ==
    With(BetweenSearch(s), LAMBDA between :
    With(IF between.ok THEN NoMatch ELSE LastDaysSearch(s), LAMBDA last :
        IF between.ok
        THEN [start_date |-> Some(Strip(between.group1)),
              end_date |-> Some(Strip(between.group2))]
        ELSE IF last.ok
        THEN [start_date |-> Some(IsoFormat(day - StrToInt(last.group1))),
              end_date |-> Some(IsoFormat(day))]
        ELSE IF ThisSearch(s, <<"w","e","e","k">>)
        THEN [start_date |-> Some(IsoFormat(day - Weekday(day))),
              end_date |-> Some(IsoFormat(day))]
        ELSE IF ThisSearch(s, <<"m","o","n","t","h">>)
        THEN [start_date |-> Some(IsoFormat(FirstOfMonth(day))),
              end_date |-> Some(IsoFormat(day))]
        ELSE [start_date |-> None, end_date |-> None]))

\* <word>\s+by\s+([a-zA-Z0-9_,\s*]+) with the word at position i
ByMatchAt(s, i, word) ==
    With(IF LitAt(s, i, word, TRUE)
         THEN WsThenLit(s, i + Len(word), <<"b","y">>)
         ELSE NoMatch, LAMBDA b :
        IF b.ok THEN WsThenList(s, b.end + 1) ELSE NoMatch)

BySearch(s, word) ==
    With({i \in 1..Len(s) : ByMatchAt(s, i, word).ok}, LAMBDA hits :
        IF hits = {} THEN NoMatch ELSE ByMatchAt(s, Leftmost(hits), word))

\* (\s+asc|\s+desc)? after the greedy column list that ends at position e
OrderDirection(s, e) ==
    IF WsThenLit(s, e + 1, <<"a","s","c">>).ok THEN Some(<<"A","S","C">>)
    ELSE IF WsThenLit(s, e + 1, <<"d","e","s","c">>).ok THEN Some(<<"D","E","S","C">>)
    ELSE None

\* lines 108-113: f"{col} {direction}", direction ASC when group 2 is empty
ExtractOrderBy(s) ==
    With(BySearch(s, <<"o","r","d","e","r">>), LAMBDA m :
        IF ~m.ok THEN None
        ELSE With(OrderDirection(s, m.end), LAMBDA direction :
                 Some(Strip(m.group) \o SP
                      \o (IF direction.some THEN direction.val ELSE <<"A","S","C">>))))

\* lines 116-120
ExtractGroupBy(s) ==
    With(BySearch(s, <<"g","r","o","u","p">>), LAMBDA m :
        IF ~m.ok THEN None ELSE Some(StrippedParts(m.group)))

\* QueryFilter with `filters: Dict[str, Any] = {}` on the class: the
\* instances share one dict, and a new instance holds the filters the
\* earlier ones wrote
QueryFilterSharedFilters(earlier_instance) ==
    [columns |-> <<>>,
     filters |-> IF earlier_instance.some THEN earlier_instance.val.filters
                 ELSE <<>>,
     start_date |-> None, end_date |-> None, order_by |-> None,
     group_by |-> <<>>]

\* QueryFilter(): every instance gets a list and a dict of its own
\* (default_factory), whatever earlier instances hold
QueryFilter(earlier_instance) ==
    [columns |-> <<>>, filters |-> <<>>, start_date |-> None,
     end_date |-> None, order_by |-> None, group_by |-> <<>>]

extract_query_components(user_text, day, result) ==
    With(SelectSearch(user_text), LAMBDA select_match :
    With(ExtractDates(user_text, day), LAMBDA dates :
    With(ExtractOrderBy(user_text), LAMBDA order_by :
    With(ExtractGroupBy(user_text), LAMBDA group_by :
        [columns |-> IF select_match.ok
                     THEN SelectColumns(select_match.group)
                     ELSE result.columns,
         filters |-> LikeLoop(EqualityLoop(InLoop(result.filters,
                                                  user_text, 1),
                                           user_text, 1),
                              user_text, 1),
         start_date |-> IF dates.start_date.some THEN dates.start_date
                        ELSE result.start_date,
         end_date |-> IF dates.end_date.some THEN dates.end_date
                      ELSE result.end_date,
         order_by |-> IF order_by.some THEN order_by ELSE result.order_by,
         group_by |-> IF group_by.some THEN group_by.val
                      ELSE result.group_by]))))

(***************************************************************************)
(* QueryService._build_sql_query (utils/query_utils.py 40-122).  A local   *)
(* name the code binds on one path only is None while it is unbound, and   *)
(* reading it raises UnboundLocalError.                                    *)
(***************************************************************************)
\* utils/config.py
DEFAULT_LIMIT == 50

DEFAULT_WINDOW_DAYS == 365

\* `row_count > 10000` (line 70)
AUTO_WINDOW_MIN_ROWS == 10000

\* `list(table_schema.keys())[:12]` (line 61)
COLUMN_LIMIT == 12

UnboundLocalErrorFor(name) ==
    [type |-> "UnboundLocalError", msg |-> name]

ValueErrorNoValidColumns ==
    [type |-> "ValueError",
     msg  |-> "No valid columns found in the query filter."]

\* [col for col in cols if col.lower() in table_schema]
InSchema(cols, schema) ==
    SelectSeq(cols, LAMBDA col :
                        With(Lower(col), LAMBDA name : SchemaHas(schema, name)))

\* lines 50-53: valid_columns is bound only when the filter names columns
ValidColumns(qf, schema) ==
    IF qf.columns # <<>> THEN Some(InSchema(qf.columns, schema)) ELSE None

\* lines 59-63: the columns selected and what the choice appends to
\* auto_applied
ChosenColumns(valid_columns, schema) ==
    IF valid_columns # <<>>
    THEN [columns |-> valid_columns, auto_applied |-> <<>>]
    ELSE [columns |->
              [i \in 1..(IF Len(schema) < COLUMN_LIMIT THEN Len(schema)
                         ELSE COLUMN_LIMIT) |-> schema[i].name],
          auto_applied |-> IF Len(schema) > COLUMN_LIMIT
                           THEN <<<<"c","o","l","u","m","n","_","l","i","m","i","t">>>> ELSE <<>>]

\* lines 67-71
DateWindowApplies(qf, date_column, rc) ==
    /\ ~Truthy(qf.start_date) /\ ~Truthy(qf.end_date)
    /\ Truthy(date_column)
    /\ rc > AUTO_WINDOW_MIN_ROWS

\* lines 72-75: the filter with the window written into it
WithDateWindow(qf, day) ==
    [qf EXCEPT !.start_date = Some(IsoFormat(day - DEFAULT_WINDOW_DAYS)),
               !.end_date = Some(IsoFormat(day))]

\* lines 76-78
AutoDateWindowNote(day) ==
    <<"a","u","t","o"," ","d","a","t","e"," ","w","i","n","d","o","w"," ">> \o IsoFormat(day - DEFAULT_WINDOW_DAYS) \o <<" ","t","o"," ">>
    \o IsoFormat(day)

\* lines 96-101: group_by_clause is bound only when a grouping column is in
\* the schema
GroupByClause(qf, schema) ==
    With(InSchema(qf.group_by, schema), LAMBDA valid_group_by :
        IF qf.group_by # <<>> /\ valid_group_by # <<>>
        THEN Some(<<" ","G","R","O","U","P"," ","B","Y"," ">> \o Join(valid_group_by, <<","," ">>))
        ELSE None)

\* lines 104-107, once group_by_clause is known to be bound or the filter
\* has an order: order_by_clause is bound only when the filter has an order
\* or the group clause is empty
OrderByClause(qf, group_by_clause, columns) ==
    IF Truthy(qf.order_by) THEN Some(<<" ","O","R","D","E","R"," ","B","Y"," ">> \o qf.order_by.val)
    ELSE IF group_by_clause.val = <<>>
    THEN Some(<<"O","R","D","E","R"," ","B","Y"," ">> \o columns[1])
    ELSE None

\* lines 89-94, 110-121 for bound clauses
AssembleSql(tbl, columns, conds, group_by_clause, order_by_clause, lim) ==
    With(<<"S","E","L","E","C","T"," ">> \o Join(columns, <<","," ">>) \o <<" ","F","R","O","M"," ">> \o tbl,
         LAMBDA select_clause :
    With(<<" ","F","R","O","M"," ">> \o tbl, LAMBDA from_clause :
    With(IF conds # <<>>
         THEN <<" ","W","H","E","R","E"," ">> \o Join(conds, <<" ","A","N","D"," ">>)
         ELSE <<>>, LAMBDA where_clause :
    With(<<" ","L","I","M","I","T"," ">> \o IntToStr(lim), LAMBDA limit_clause :
    With(<<select_clause, from_clause>>
         \o (IF where_clause # <<>> THEN <<where_clause>> ELSE <<>>)
         \o (IF group_by_clause # <<>> THEN <<group_by_clause>> ELSE <<>>)
         \o (IF order_by_clause # <<>> THEN <<order_by_clause>> ELSE <<>>)
         \o <<limit_clause>>, LAMBDA sql_parts :
        Join(sql_parts, SP))))))

\* `raise` inside _build_sql_query
build_raise(exc, qf) == [ok |-> FALSE, exc |-> exc, query_filter |-> qf]

\* _build_sql_query: the plan or the exception raised, and the filter as
\* the call leaves it
build_sql_query(tbl, schema, qf, lim, rc, day) ==
    With(ValidColumns(qf, schema), LAMBDA valid_columns :
        IF ~valid_columns.some
        THEN build_raise(UnboundLocalErrorFor("valid_columns"), qf)
        ELSE IF valid_columns.val = <<>>
        THEN build_raise(ValueErrorNoValidColumns, qf)
        ELSE
        With(ChosenColumns(valid_columns.val, schema), LAMBDA chosen :
        With(find_date_column(schema), LAMBDA date_column :
        With(DateWindowApplies(qf, date_column, rc), LAMBDA window :
        With(IF window THEN WithDateWindow(qf, day) ELSE qf, LAMBDA qf2 :
        With(chosen.auto_applied
             \o (IF window THEN <<AutoDateWindowNote(day)>> ELSE <<>>),
             LAMBDA auto_applied :
        With(build_where_clause(qf2.filters, schema, qf2.start_date,
                                qf2.end_date, date_column), LAMBDA where :
        With(GroupByClause(qf2, schema), LAMBDA group_by_clause :
            IF ~group_by_clause.some
            THEN build_raise(UnboundLocalErrorFor("group_by_clause"), qf2)
            ELSE
            With(OrderByClause(qf2, group_by_clause, chosen.columns),
                 LAMBDA order_by_clause :
                IF ~order_by_clause.some
                THEN build_raise(UnboundLocalErrorFor("order_by_clause"), qf2)
                ELSE [ok |-> TRUE,
                      val |-> [sql |-> AssembleSql(tbl, chosen.columns,
                                                   where.where_clauses,
                                                   group_by_clause.val,
                                                   order_by_clause.val, lim),
                               params |->
                                   DictSet(where.params,
                                           [key |-> <<"l","i","m","i","t">>,
                                            value |-> [int |-> lim]]),
                               auto_applied |-> auto_applied],
                      query_filter |-> qf2])))))))))

(***************************************************************************)
(* The state machine                                                       *)
(***************************************************************************)
NoRequest ==
    [user_text |-> <<>>, table |-> <<>>, rows_budget |-> None, limit |-> None]

NoDb ==
    [tables |-> {}, schema |-> <<>>, row_count |-> 0, fault |-> "none",
     execute_fails |-> FALSE]

\* nothing has been synthesized
PlanIdle ==
    /\ today = 0
    /\ query_filter = None
    /\ row_count = 0
    /\ plan = None

\* nothing has been estimated or sampled
CostIdle ==
    /\ where_conditions = <<>>
    /\ estimated_rows = None
    /\ sampling_sql = None

\* the Extractor has not run
ExtractIdle == extracted = <<>>

\* no thread has asked the manager for a connection
ConnIdle ==
    /\ local = <<>>
    /\ connections = <<>>
    /\ using = <<>>
    /\ managers = <<>>

Init ==
    /\ pc = "Idle"
    /\ request = NoRequest
    /\ db = NoDb
    /\ table_name = <<>>
    /\ table_schema = <<>>
    /\ calls = <<>>
    /\ response = None
    /\ raised = None
    /\ text = None
    /\ served = 0
    /\ PlanIdle
    /\ CostIdle
    /\ ExtractIdle
    /\ ConnIdle

\* query_sqlite_table (main.py): a request arrives and query_table calls
\* process_mcp_request; the database is in some state
Receive ==
    /\ pc = "Idle"
    /\ served < MaxRequests
    /\ \E ut \in UserTexts, tb \in TableFields, rb \in RowsBudgets,
          lm \in Limits :
          request' = [user_text |-> ut, table |-> tb, rows_budget |-> rb,
                      limit |-> lm]
    /\ \E rc \in RowCounts, ft \in StorageFaults, ef \in BOOLEAN :
          db' = [tables |-> DbTables, schema |-> WidgetsSchema,
                 row_count |-> rc, fault |-> ft, execute_fails |-> ef]
    /\ pc' = "Start"
    /\ table_name' = <<>>
    /\ table_schema' = <<>>
    /\ calls' = <<>>
    /\ response' = None
    /\ raised' = None
    /\ text' = None
    /\ served' = served + 1
    /\ UNCHANGED <<planVars, costVars, extractVars, connVars>>

\* an exception raised inside the try block of process_mcp_request
\* (query_utils.py 240-247)
Raise(exc) ==
    IF Caught(exc)
    THEN /\ pc' = "Responded"
         /\ response' = Some(ErrorResponse(exc))
         /\ raised' = None
    ELSE /\ pc' = "Failed"
         /\ response' = None
         /\ raised' = Some(exc)

\* `return MCPResponse(...)`
Return(resp) ==
    /\ pc' = "Responded"
    /\ response' = Some(resp)
    /\ raised' = None

\* query_utils.py 151-157.  extract_query_components (152) runs first; its
\* result is read by _build_sql_query only (175) and it raises for none of
\* UserTexts.
ResolveTable ==
    /\ pc = "Start"
    /\ LET ref == determine_table_ref(request)
       IN  IF ref.ok
           THEN /\ table_name' = normalize_table_ref(ref.val)
                /\ pc' = "TableResolved"
                /\ UNCHANGED <<response, raised>>
           ELSE /\ Raise(ref.exc)
                /\ UNCHANGED table_name
    /\ UNCHANGED <<request, db, table_schema, calls, text, served>>
    /\ UNCHANGED <<planVars, costVars, extractVars, connVars>>

\* query_utils.py 160-166
CheckTableExists ==
    /\ pc = "TableResolved"
    /\ calls' = Append(calls, "table_exists")
    /\ LET r == table_exists(db, table_name)
       IN  IF ~r.ok THEN Raise(r.exc)
           ELSE IF TableAbsent(r.val)
           THEN Return(TableMissingResponse(table_name))
           ELSE /\ pc' = "TableChecked"
                /\ UNCHANGED <<response, raised>>
    /\ UNCHANGED <<request, db, table_name, table_schema, text, served>>
    /\ UNCHANGED <<planVars, costVars, extractVars, connVars>>

\* query_utils.py 167
LoadSchema ==
    /\ pc = "TableChecked"
    /\ calls' = Append(calls, "get_table_schema")
    /\ LET r == get_table_schema(db, table_name)
       IN  IF ~r.ok
           THEN /\ Raise(r.exc)
                /\ UNCHANGED table_schema
           ELSE /\ table_schema' = r.val
                /\ pc' = "SchemaLoaded"
                /\ UNCHANGED <<response, raised>>
    /\ UNCHANGED <<request, db, table_name, text, served>>
    /\ UNCHANGED <<planVars, costVars, extractVars, connVars>>

\* query_utils.py 168: self._db_manager.get_table_row_count(table_name).
\* The manager defines get_row_count; the lookup of get_table_row_count
\* raises AttributeError before any call is made.
LoadRowCount ==
    /\ pc = "SchemaLoaded"
    /\ IF "get_table_row_count" \in DatabaseManagerMethods
       THEN /\ pc' = "RowCountLoaded"
            /\ calls' = Append(calls, "get_table_row_count")
            /\ UNCHANGED <<response, raised>>
       ELSE /\ Raise(AttributeErrorFor("get_table_row_count"))
            /\ UNCHANGED calls
    /\ UNCHANGED <<request, db, table_name, table_schema, text, served>>
    /\ UNCHANGED <<planVars, costVars, extractVars, connVars>>

\* query_table after process_mcp_request: the envelope is marshalled, or
\* the exception is turned into the error text (sqllite_service.py 31-70)
FormatResponse ==
    /\ pc \in {"Responded", "Failed"}
    /\ text' = IF pc = "Responded"
               THEN Some(query_table_text(response.val))
               ELSE Some([error |-> TRUE, exc |-> raised.val, parts |-> <<>>])
    /\ pc' = "Formatted"
    /\ UNCHANGED <<request, db, table_name, table_schema, calls, response,
                   raised, served>>
    /\ UNCHANGED <<planVars, costVars, extractVars, connVars>>

\* the tool hands the text to its caller; nothing of the request is kept
Deliver ==
    /\ pc = "Formatted"
    /\ pc' = "Idle"
    /\ request' = NoRequest
    /\ db' = NoDb
    /\ table_name' = <<>>
    /\ table_schema' = <<>>
    /\ calls' = <<>>
    /\ response' = None
    /\ raised' = None
    /\ text' = None
    /\ UNCHANGED served
    /\ UNCHANGED <<planVars, costVars, extractVars, connVars>>

Next ==
    \/ Receive
    \/ ResolveTable
    \/ CheckTableExists
    \/ LoadSchema
    \/ LoadRowCount
    \/ FormatResponse
    \/ Deliver

Spec == Init /\ [][Next]_vars

(***************************************************************************)
(* Vocabulary of the properties                                            *)
(***************************************************************************)
InSeq(x, s) == \E i \in 1..Len(s) : s[i] = x

Contains(s, lit) == \E i \in 1..Len(s) : LitAt(s, i, lit, TRUE)

\* process_mcp_request has ended for the current request
Ended == pc \in {"Responded", "Failed", "Formatted"}

\* the envelope of the current request
Envelope == response.val

NoteKind == IF Envelope.note.some THEN Envelope.note.val.kind ELSE "none"

\* the rows budget the request carries, the process-wide maximum when it
\* carries none
RequestBudget ==
    IF request.rows_budget.some THEN request.rows_budget.val
    ELSE MAX_ROWS_BUDGET

\* estimatedRows x samplingRate
SampledEstimate(est) == (est * SAMPLING_RATE_PERCENT) \div 100

\* the text names no column, filter, date range, ordering or grouping: the
\* intent is empty and the plan has a WHERE clause only through the implicit
\* date window
PlainText(t) ==
    /\ \A i \in 1..Len(t) : t[i] \notin {"=", "(", "'", "\""}
    /\ ~Contains(t, <<"l","i","k","e">>)
    /\ ~Contains(t, <<"l","a","s","t">>)
    /\ ~Contains(t, <<"t","h","i","s">>)
    /\ ~Contains(t, <<"b","e","t","w","e","e","n">>)
    /\ ~Contains(t, <<"o","r","d","e","r">>)
    /\ ~Contains(t, <<"g","r","o","u","p">>)
    /\ \/ ~Contains(t, kwSelect)
       \/ Contains(t, kwSelect \o SP \o <<"*">> \o SP \o kwFrom)

NoDateColumn(schema) ==
    \A i \in 1..Len(schema) :
        schema[i].type \notin {<<"D","A","T","E">>, <<"D","A","T","E","T","I","M","E">>, <<"T","I","M","E","S","T","A","M","P">>}

\* the request reaches the cost decision of the specified pipeline: its
\* table exists, schema and row count can be read, synthesis has nothing to
\* reject and no WHERE condition reduces the estimate, which is then the
\* row count of the table
ReachesDecision ==
    /\ Ended
    /\ table_name \in db.tables
    /\ db.fault = "none"
    /\ PlainText(request.user_text)
    /\ NoDateColumn(db.schema)

EstimatedRows == db.row_count

\* the name that follows the leftmost `from` that is followed by white
\* space and a name
IsNameChar(c) ==
    c \in LowerLetters \cup UpperLetters \cup Digits \cup {"_", "."}

NameAfterFromAt(t, i, j) ==
    /\ i + 5 <= j /\ j <= Len(t)
    /\ Lower(Slice(t, i, i + 3)) = kwFrom
    /\ \A w \in (i + 4)..(j - 1) : t[w] \in Whitespace
    /\ IsNameChar(t[j])

NameAfterFrom(t) ==
    LET P   == 1..Len(t)
        hit == {m \in P \X P : NameAfterFromAt(t, m[1], m[2])}
    IN  IF hit = {} THEN None
        ELSE LET m == CHOOSE h \in hit : \A g \in hit : h[1] <= g[1]
                 k == CHOOSE e \in m[2]..Len(t) :
                          /\ \A n \in m[2]..e : IsNameChar(t[n])
                          /\ (e = Len(t) \/ ~IsNameChar(t[e + 1]))
             IN  Some(Slice(t, m[2], k))

\* what is left of a dotted name after its last dot
RECURSIVE LastSegment(_)
LastSegment(s) ==
    IF \E i \in 1..Len(s) : s[i] = "." THEN LastSegment(Tail(s)) ELSE s

(***************************************************************************)
(* Properties                                                              *)
(***************************************************************************)

\* C1: whatever the request and whatever the storage calls do,
\* process_mcp_request ends by returning an envelope: no exception escapes
\* to the caller, and once the pipeline has left the positions from which
\* it issues its next step it has ended with an envelope.
C1_AlwaysEnvelope ==
    /\ pc # "Failed"
    /\ ~raised.some
    /\ pc \notin {"Idle", "Start", "TableResolved", "TableChecked",
                  "SchemaLoaded"}
          => pc \in {"Responded", "Formatted"} /\ response.some

\* a storage call failed, and an attribute lookup failed, and the request
\* was answered
C1_Witness ==
    /\ pc = "Responded"
    /\ response.some
    /\ NoteKind = "processing_error"
    /\ Envelope.note.val.exc.type = "AttributeError"

\* C2: a request that reaches the cost decision with an estimate within its
\* rows budget, and whose query the engine accepts, is answered with the
\* rows, no note, the estimate as estimated_rows and no `sampling` entry
\* (scenario B: "select * from widgets" on a table of 5 rows).
C2_ExactPathReturnsRows ==
    (/\ ReachesDecision
     /\ EstimatedRows <= RequestBudget
     /\ ~db.execute_fails)
    => /\ response.some
       /\ Envelope.rows.some
       /\ ~Envelope.note.some
       /\ Envelope.estimated_rows = Some(EstimatedRows)
       /\ ~InSeq("sampling", Envelope.auto_applied)
       /\ Envelope.sql_preview # <<>>

\* C3: when the estimate exceeds the rows budget and the sampled estimate is
\* within it, the sampled statement is executed: the SQL preview holds the
\* sampling predicate, auto_applied includes `sampling` and rows come back.
C3_SampledPathReturnsRows ==
    (/\ ReachesDecision
     /\ EstimatedRows > RequestBudget
     /\ SampledEstimate(EstimatedRows) <= RequestBudget
     /\ ~db.execute_fails)
    => /\ response.some
       /\ Envelope.rows.some
       /\ InSeq("sampling", Envelope.auto_applied)
       /\ Contains(Envelope.sql_preview, <<"R","A","N","D","O","M","(",")">>)

\* C4: when the estimate and the sampled estimate both exceed the rows
\* budget the request is rejected: nothing is executed and the response has
\* a too-expensive note, no rows, the SQL preview and the estimate.
C4_RejectedKeepsPreview ==
    (/\ ReachesDecision
     /\ EstimatedRows > RequestBudget
     /\ SampledEstimate(EstimatedRows) > RequestBudget)
    => /\ response.some
       /\ ~InSeq("execute_query", calls)
       /\ NoteKind = "too_expensive"
       /\ ~Envelope.rows.some
       /\ Envelope.sql_preview # <<>>
       /\ Envelope.estimated_rows = Some(EstimatedRows)

\* C5: when table_exists reports the resolved table absent, the response has
\* an empty SQL preview and the note that the table does not exist, nothing
\* is raised and table_exists stays the only storage call of the request.
C5_TableMissing ==
    (/\ Len(calls) >= 1
     /\ calls[1] = "table_exists"
     /\ db.fault # "table_exists"
     /\ table_name \notin db.tables)
    => /\ pc \in {"Responded", "Formatted"}
       /\ response.some
       /\ ~raised.some
       /\ Envelope.sql_preview = <<>>
       /\ Envelope.note = Some([kind |-> "table_missing", table |-> table_name])
       /\ calls = <<"table_exists">>

\* the table `ghost`, named by the request, is looked up and is not there
C5_Witness ==
    /\ pc = "Responded"
    /\ request.table = nmGhost
    /\ table_name = nmGhost
    /\ calls = <<"table_exists">>
    /\ NoteKind = "table_missing"

C7_RowsXorNote ==
    pc \in {"Responded", "Formatted"}
    => /\ response.some
       /\ Envelope.rows.some # Envelope.note.some

\* an envelope was returned for a table that is not there
C7_Witness ==
    /\ pc = "Responded"
    /\ response.some
    /\ NoteKind = "table_missing"
    /\ ~Envelope.rows.some

\* C8: the table is the request's table field when it has one, otherwise
\* the name that follows `from` in the text (the last dotted part of either,
\* up to letter case and surrounding white space); with neither, the request
\* ends with the could-not-be-determined note and without a storage call.
C8_TableResolution ==
    pc \notin {"Idle", "Start"}
    => LET src == IF request.table # <<>> THEN Some(request.table)
                  ELSE NameAfterFrom(request.user_text)
       IN  IF src.some
           THEN /\ Strip(Lower(table_name)) = Strip(Lower(LastSegment(src.val)))
                /\ pc = "TableResolved" \/ Len(calls) >= 1
           ELSE /\ pc \in {"Responded", "Formatted"}
                /\ response.some
                /\ NoteKind = "processing_error"
                /\ Envelope.note.val.exc = ValueErrorNoTable
                /\ calls = <<>>

\* no table field, and the name is taken from a later `from` of the text
C8_Witness ==
    /\ pc = "TableResolved"
    /\ request.table = <<>>
    /\ request.user_text = TextFromLater
    /\ table_name = nmWidgets

\* the storage calls of one request, in the order of the pipeline
CallOrder ==
    <<"table_exists", "get_table_schema", "get_row_count", "execute_query">>

C10_NoteInText ==
    (pc = "Formatted" /\ response.some /\ Envelope.note.some)
    => /\ ~text.val.error
       /\ \E i \in 1..Len(text.val.parts) :
             /\ text.val.parts[i].label = "Note"
             /\ text.val.parts[i].value = Envelope.note.val

(***************************************************************************)
(* estimate_query_cost on its own: the conditions build_where_clause       *)
(* makes of a filter dict, estimated for a row count                       *)
(***************************************************************************)
\* filters of one intent
MaxFilters == 2

OrdersSchema ==
    <<[name |-> <<"i","d">>, type |-> <<"I","N","T","E","G","E","R">>],
      [name |-> <<"s","t","a","t","u","s">>, type |-> <<"T","E","X","T">>],
      [name |-> <<"c","r","e","a","t","e","d","_","a","t">>, type |-> <<"D","A","T","E","T","I","M","E">>]>>

FilterEntries ==
    {[key |-> <<"s","t","a","t","u","s">>, list |-> FALSE, value |-> <<"o","p","e","n">>],
     [key |-> <<"s","t","a","t","u","s">>, list |-> TRUE, value |-> <<<<"a">>, <<"b">>>>],
     [key |-> <<"n","a","m","e","_","l","i","k","e">>, list |-> FALSE, value |-> <<"a","b","%">>],
     [key |-> <<"i","d">>, list |-> FALSE, value |-> <<"7">>]}

\* dicts of at most MaxFilters of the entries
FilterDicts ==
    {d \in UNION {[1..n -> FilterEntries] : n \in 0..MaxFilters} :
        \A i, j \in 1..Len(d) : i # j => d[i].key # d[j].key}

DateBounds ==
    {[start_date |-> None, end_date |-> None],
     [start_date |-> Some(<<"2","0","2","4","-","0","1","-","0","1">>), end_date |-> Some(<<"2","0","2","4","-","0","2","-","0","1">>)]}

RequestIdle ==
    /\ request = NoRequest
    /\ table_name = <<>>
    /\ table_schema = <<>>
    /\ response = None
    /\ raised = None

ServerIdle ==
    /\ db = NoDb
    /\ calls = <<>>
    /\ text = None
    /\ served = 0

InitEstimate ==
    /\ pc = "Estimate"
    /\ RequestIdle
    /\ ServerIdle
    /\ today = 0
    /\ query_filter = None
    /\ plan = None
    /\ row_count \in RowCounts
    /\ \E d \in FilterDicts, b \in DateBounds :
          where_conditions =
              build_where_clause(d, OrdersSchema, b.start_date, b.end_date,
                                 find_date_column(OrdersSchema)).where_clauses
    /\ estimated_rows = None
    /\ sampling_sql = None
    /\ ExtractIdle
    /\ ConnIdle

\* estimated_rows = estimate_query_cost(table_name, where_conditions, row_count)
EstimateCost ==
    /\ pc = "Estimate"
    /\ estimated_rows' =
           Some(estimate_query_cost(table_name, where_conditions, row_count))
    /\ pc' = "Estimated"
    /\ UNCHANGED <<request, table_name, table_schema, response, raised>>
    /\ UNCHANGED <<serverVars, planVars, where_conditions, sampling_sql>>
    /\ UNCHANGED <<extractVars, connVars>>

NextEstimate == EstimateCost

SpecEstimate == InitEstimate /\ [][NextEstimate]_vars

\* the operator of a condition `<column> <operator> ...`
OperatorOf(condition) == Split(condition, " ")[2]

\* the estimate the operator of one condition stands for
ByOperator(condition, rc) ==
    CASE OperatorOf(condition) = <<"=">> -> Max(1, rc \div 10)
      [] OperatorOf(condition) = <<"I","N">> -> Max(1, rc \div 5)
      [] OperatorOf(condition) = <<"L","I","K","E">> -> Max(1, rc \div 2)
      [] OTHER -> rc

\* C17: the estimate is the row count when there is no condition, and
\* otherwise what the operator of the last condition alone stands for: a
\* tenth for an equality, a fifth for a set membership, a half for a pattern
\* match, floored at 1, and the row count for anything else
C17_LastConditionDecides ==
    pc = "Estimated" =>
        estimated_rows.val =
            IF where_conditions = <<>> THEN row_count
            ELSE ByOperator(where_conditions[Len(where_conditions)], row_count)

\* a pattern match added after an equality raises the estimate above what
\* the equality alone stands for
C17_Witness ==
    /\ pc = "Estimated"
    /\ Len(where_conditions) >= 2
    /\ OperatorOf(where_conditions[1]) = <<"=">>
    /\ OperatorOf(where_conditions[Len(where_conditions)]) = <<"L","I","K","E">>
    /\ estimated_rows.val > ByOperator(where_conditions[1], row_count)

(***************************************************************************)
(* QueryService._add_sampling (utils/query_utils.py 124-145)               *)
(***************************************************************************)
\* f"ABS(RANDOM()) < {int(sampling_rate * 100)}"
SamplingPredicate(percent) == <<"A","B","S","(","R","A","N","D","O","M","(",")",")"," ","<"," ">> \o IntToStr(percent)

\* the test `KEYWORD in sql.upper()` and the replacement
\* sql.replace(KEYWORD, ..., 1), which looks for the keyword as written
add_sampling(sql, percent) ==
    IF SubstringOf(<<"W","H","E","R","E">>, Upper(sql))
    THEN ReplaceFirst(sql, <<"W","H","E","R","E">>,
                      <<"W","H","E","R","E"," ">> \o SamplingPredicate(percent) \o <<" ","A","N","D"," ">>)
    ELSE IF SubstringOf(<<"O","R","D","E","R"," ","B","Y">>, Upper(sql))
    THEN ReplaceFirst(sql, <<"O","R","D","E","R"," ","B","Y">>,
                      <<"W","H","E","R","E"," ">> \o SamplingPredicate(percent)
                      \o <<" ","O","R","D","E","R"," ","B","Y"," ">>)
    ELSE IF SubstringOf(<<"L","I","M","I","T">>, Upper(sql))
    THEN ReplaceFirst(sql, <<"L","I","M","I","T">>,
                      <<"W","H","E","R","E"," ">> \o SamplingPredicate(percent) \o <<" ","L","I","M","I","T"," ">>)
    ELSE sql \o <<" ","W","H","E","R","E"," ">> \o SamplingPredicate(percent)

\* the letter cases a statement's keywords are written in
KeywordCases == {"upper", "lower", "title"}

Keyword(word, case) ==
    CASE case = "upper" -> Upper(word)
      [] case = "lower" -> Lower(word)
      [] OTHER -> <<UpperChar(word[1])>> \o Lower(Tail(word))

SelectLists == {<<"a">>, <<"a",","," ","b">>, <<"s","o","m","e","w","h","e","r","e">>}

\* SELECT <list> FROM t [WHERE x = :param1] [ORDER BY a] [LIMIT 5]
Statement(case, list, w, o, l) ==
    Keyword(<<"s","e","l","e","c","t">>, case) \o SP \o list \o SP \o Keyword(<<"f","r","o","m">>, case)
    \o <<" ","t">>
    \o (IF w THEN SP \o Keyword(<<"w","h","e","r","e">>, case) \o <<" ","x"," ","="," ",":","p","a","r","a","m","1">>
        ELSE <<>>)
    \o (IF o THEN SP \o Keyword(<<"o","r","d","e","r">>, case) \o SP
                  \o Keyword(<<"b","y">>, case) \o <<" ","a">>
        ELSE <<>>)
    \o (IF l THEN SP \o Keyword(<<"l","i","m","i","t">>, case) \o <<" ","5">> ELSE <<>>)

Statements ==
    {Statement(case, list, w, o, l) :
        case \in KeywordCases, list \in SelectLists,
        w \in BOOLEAN, o \in BOOLEAN, l \in BOOLEAN}

InitSampling ==
    /\ pc = "Sample"
    /\ RequestIdle
    /\ ServerIdle
    /\ today = 0
    /\ query_filter = None
    /\ row_count = 0
    /\ \E sql \in Statements :
          plan = Some([sql |-> sql, params |-> <<>>, auto_applied |-> <<>>])
    /\ CostIdle
    /\ ExtractIdle
    /\ ConnIdle

\* sampling_sql = self._add_sampling(sql, SAMPLING_RATE) (line 206)
AddSampling ==
    /\ pc = "Sample"
    /\ sampling_sql' = Some(add_sampling(plan.val.sql, SAMPLING_RATE_PERCENT))
    /\ pc' = "Sampled"
    /\ UNCHANGED <<request, table_name, table_schema, response, raised>>
    /\ UNCHANGED <<serverVars, planVars, where_conditions, estimated_rows>>
    /\ UNCHANGED <<extractVars, connVars>>

NextSampling == AddSampling

SpecSampling == InitSampling /\ [][NextSampling]_vars

\* the words of a statement
Tokens(s) == SelectSeq(Split(s, " "), LAMBDA w : w # <<>>)

\* the first place where the words kw stand in toks, in any letter case
\* (0 when they do not)
KeywordPlace(toks, kw) ==
    LET hits == {i \in 1..(Len(toks) - Len(kw) + 1) :
                    \A k \in 1..Len(kw) : Upper(toks[i + k - 1]) = kw[k]}
    IN  IF hits = {} THEN 0
        ELSE CHOOSE i \in hits : \A j \in hits : i <= j

\* the words of the sampling predicate
PredicateTokens == Tokens(SamplingPredicate(SAMPLING_RATE_PERCENT))

InsertAt(toks, i, new) ==
    SubSeq(toks, 1, i - 1) \o new \o SubSeq(toks, i, Len(toks))

\* the statement with one sampling predicate put where the clauses of the
\* statement call for it
WithSampling(toks) ==
    LET w == KeywordPlace(toks, <<<<"W","H","E","R","E">>>>)
        o == KeywordPlace(toks, <<<<"O","R","D","E","R">>, <<"B","Y">>>>)
        l == KeywordPlace(toks, <<<<"L","I","M","I","T">>>>)
    IN  IF w # 0 THEN InsertAt(toks, w + 1, PredicateTokens \o <<<<"A","N","D">>>>)
        ELSE IF o # 0 THEN InsertAt(toks, o, <<<<"W","H","E","R","E">>>> \o PredicateTokens)
        ELSE IF l # 0 THEN InsertAt(toks, l, <<<<"W","H","E","R","E">>>> \o PredicateTokens)
        ELSE toks \o <<<<"W","H","E","R","E">>>> \o PredicateTokens

\* C18: whatever the letter case of its keywords, the sampled statement is
\* the statement with exactly one sampling predicate added and nothing else
\* changed: AND-ed in right after WHERE when there is a WHERE clause,
\* otherwise as a new WHERE right before ORDER BY, otherwise right before
\* LIMIT, otherwise at the end
C18_OnePredicateInPlace ==
    pc = "Sampled" =>
        Tokens(sampling_sql.val) = WithSampling(Tokens(plan.val.sql))

(***************************************************************************)
(* Query synthesis on its own: lines 152 and 172-178 of                    *)
(* process_mcp_request, for a request whose table, schema and row count    *)
(* the storage calls of lines 160-168 have answered                        *)
(***************************************************************************)
SynthTexts ==
    {<<"s","e","l","e","c","t"," ","i","d"," ","f","r","o","m"," ","o","r","d","e","r","s">>,
     <<"s","e","l","e","c","t"," ","i","d",","," ","S","t","a","t","u","s"," ","f","r","o","m"," ","o","r","d","e","r","s"," ","g","r","o","u","p"," ","b","y"," ","i","d",";"," ","o","r","d","e","r"," ","b","y"," ","i","d">>,
     <<"s","e","l","e","c","t"," ","i","d",","," ","n","o","p","e"," ","f","r","o","m"," ","o","r","d","e","r","s"," ","o","r","d","e","r"," ","b","y"," ","i","d"," ","g","r","o","u","p"," ","b","y"," ","i","d">>,
     <<"s","e","l","e","c","t"," ","n","o","p","e"," ","f","r","o","m"," ","o","r","d","e","r","s">>,
     <<"o","r","d","e","r","s"," ","l","a","s","t"," ","3","0"," ","d","a","y","s">>,
     <<"s","e","l","e","c","t"," ","*"," ","f","r","o","m"," ","o","r","d","e","r","s">>,
     <<"s","e","l","e","c","t"," ","i","d"," ","f","r","o","m"," ","o","r","d","e","r","s"," ","l","a","s","t"," ","3","0"," ","d","a","y","s"," ","o","r","d","e","r"," ","b","y"," ","i","d"," ","g","r","o","u","p"," ","b","y"," ","i","d">>,
     <<"s","e","l","e","c","t"," ","i","d"," ","f","r","o","m"," ","o","r","d","e","r","s"," ","w","h","e","r","e"," ","s","t","a","t","u","s"," ","="," ","'","o","p","e","n","'"," ","a","n","d"," ","i","d"," ","i","n"," ","(","1",","," ","2",")"," ","o","r","d","e","r"," ","b","y"," ","i","d"," ","g","r","o","u","p"," ","b","y"," ","i","d">>,
     <<"s","e","l","e","c","t"," ","i","d"," ","f","r","o","m"," ","o","r","d","e","r","s"," ","w","h","e","r","e"," ","n","a","m","e"," ","l","i","k","e"," ","'","a","b","%","'"," ","g","r","o","u","p"," ","b","y"," ","s","t","a","t","u","s",";"," ","o","r","d","e","r"," ","b","y"," ","i","d">>,
     <<"s","e","l","e","c","t"," ","i","d"," ","f","r","o","m"," ","o","r","d","e","r","s"," ","t","h","i","s"," ","m","o","n","t","h"," ","o","r","d","e","r"," ","b","y"," ","i","d"," ","g","r","o","u","p"," ","b","y"," ","i","d">>,
     <<"s","e","l","e","c","t"," ","c","0","1",","," ","C","1","3"," ","f","r","o","m"," ","o","r","d","e","r","s"," ","g","r","o","u","p"," ","b","y"," ","c","0","2",";"," ","o","r","d","e","r"," ","b","y"," ","c","0","1">>,
     <<"s","h","o","w"," ","o","r","d","e","r","s">>}

\* a table of thirteen text columns
WideSchema ==
    [i \in 1..13 |-> [name |-> <<"c">> \o TwoDigits(i), type |-> <<"T","E","X","T">>]]

\* the tables requests name, each with the schema get_table_schema returns
SynthTables ==
    {[name |-> <<"o","r","d","e","r","s">>, schema |-> OrdersSchema],
     [name |-> nmWidgets, schema |-> WidgetsSchema],
     [name |-> <<"e","v","e","n","t","s">>, schema |-> WideSchema]}

\* what get_row_count returns
SynthRowCounts == {0, 5, 10000, 10001, 50000}

\* 2024-03-01 and 2026-11-04
Todays == {738946, 739924}

InitSynth ==
    /\ pc = "Extract"
    /\ \E ut \in SynthTexts, tb \in SynthTables, lm \in Limits :
          /\ request = [user_text |-> ut, table |-> tb.name,
                        rows_budget |-> Some(100000), limit |-> lm]
          /\ table_name = normalize_table_ref(tb.name)
          /\ table_schema = tb.schema
    /\ response = None
    /\ raised = None
    /\ ServerIdle
    /\ today \in Todays
    /\ query_filter = None
    /\ row_count \in SynthRowCounts
    /\ plan = None
    /\ CostIdle
    /\ ExtractIdle
    /\ ConnIdle

\* query_filter = extract_query_components(request.user_text) (line 152)
ExtractComponents ==
    /\ pc = "Extract"
    /\ query_filter' =
           Some(extract_query_components(request.user_text, today,
                                         QueryFilter(query_filter)))
    /\ pc' = "Synthesize"
    /\ UNCHANGED <<request, table_name, table_schema, response, raised>>
    /\ UNCHANGED <<serverVars, today, row_count, plan, costVars>>
    /\ UNCHANGED <<extractVars, connVars>>

\* `x or default` on an Optional[int]
OrDefault(o, default) == IF o.some /\ o.val # 0 THEN o.val ELSE default

\* lines 172-178: sql, params, auto_applied = self._build_sql_query(
\* table_name, table_schema, query_filter, request.limit or DEFAULT_LIMIT,
\* row_count or MAX_ROWS_BUDGET); an exception goes to the handler of
\* lines 240-247
Synthesize ==
    /\ pc = "Synthesize"
    /\ \E r \in {build_sql_query(table_name, table_schema, query_filter.val,
                                  OrDefault(request.limit, DEFAULT_LIMIT),
                                  OrDefault(Some(row_count), MAX_ROWS_BUDGET),
                                  today)} :
           /\ query_filter' = Some(r.query_filter)
           /\ IF r.ok
              THEN /\ plan' = Some(r.val)
                   /\ pc' = "Planned"
                   /\ UNCHANGED <<response, raised>>
              ELSE /\ Raise(r.exc)
                   /\ UNCHANGED plan
    /\ UNCHANGED <<request, table_name, table_schema>>
    /\ UNCHANGED <<serverVars, today, row_count, costVars>>
    /\ UNCHANGED <<extractVars, connVars>>

NextSynth ==
    \/ ExtractComponents
    \/ Synthesize

SpecSynth == InitSynth /\ [][NextSynth]_vars

(***************************************************************************)
(* Vocabulary of the properties of synthesis                               *)
(***************************************************************************)
\* synthesis has ended, with a plan or with the error envelope
Synthesized == pc \in {"Planned", "Responded"}

\* the intent as the Extractor left it
Intent ==
    extract_query_components(request.user_text, today, QueryFilter(None))

\* the columns of cols that name a column of the schema, whatever the
\* letter case, in the order of cols
PresentIn(cols, schema) ==
    SelectSeq(cols, LAMBDA c : \E i \in 1..Len(schema) :
                                   Lower(schema[i].name) = Lower(c))

\* the select list of a statement: what stands between SELECT and the
\* first FROM
SelectListOf(sql) ==
    LET toks == Tokens(sql)
        f == KeywordPlace(toks, <<<<"F","R","O","M">>>>)
    IN  Split(Join(SubSeq(toks, 2, f - 1), <<>>), ",")

\* the exception the error envelope reports
OutcomeError == response.val.note.val.exc

HasAutoWindowNote(auto_applied) ==
    \E i \in 1..Len(auto_applied) :
        StartsWith(auto_applied[i], <<"a","u","t","o"," ","d","a","t","e"," ","w","i","n","d","o","w">>)

\* times the word kw stands in toks
CountOf(toks, kw) == Cardinality({i \in 1..Len(toks) : toks[i] = kw})

\* C11: when the intent names columns, synthesis selects exactly those of
\* them that are in the schema (case-insensitively, in the caller's order),
\* or fails with "No valid columns" when none of them is
C11_ColumnsSelected ==
    (Synthesized /\ Intent.columns # <<>>) =>
        IF PresentIn(Intent.columns, table_schema) = <<>>
        THEN pc = "Responded" /\ OutcomeError = ValueErrorNoValidColumns
        ELSE /\ pc = "Planned"
             /\ SelectListOf(plan.val.sql)
                    = PresentIn(Intent.columns, table_schema)

\* C12: when the intent names no column, synthesis succeeds and selects the
\* first 12 columns of the schema in schema order, and auto_applied holds
\* column_limit exactly when the schema has more than 12 columns
C12_DefaultColumns ==
    (Synthesized /\ Intent.columns = <<>>) =>
        /\ pc = "Planned"
        /\ SelectListOf(plan.val.sql)
               = [i \in 1..(IF Len(table_schema) < 12 THEN Len(table_schema)
                            ELSE 12) |-> table_schema[i].name]
        /\ InSeq(<<"c","o","l","u","m","n","_","l","i","m","i","t">>, plan.val.auto_applied)
               <=> Len(table_schema) > 12

\* C13: for a table of at most 10,000 rows (none included) the implicit
\* date window is never applied: the dates of the intent stay as the
\* Extractor left them and auto_applied has no auto date window note
C13_NoWindowForSmallTables ==
    (Synthesized /\ row_count <= 10000) =>
        /\ query_filter.val.start_date = Intent.start_date
        /\ query_filter.val.end_date = Intent.end_date
        /\ pc = "Planned" => ~HasAutoWindowNote(plan.val.auto_applied)

\* the value bound to a parameter of the plan
ParamOf(key) == Lookup(plan.val.params, key).value

\* C14: for a table of more than 10,000 rows with a qualifying date column
\* and an intent without date bounds, the WHERE clause holds
\* <date column> BETWEEN :start_date AND :end_date, bound to today minus 365
\* days and today, and auto_applied holds the note with the same two dates
C14_ImplicitWindow ==
    (/\ Synthesized
     /\ row_count > 10000
     /\ find_date_column(table_schema).some
     /\ ~Intent.start_date.some /\ ~Intent.end_date.some) =>
        /\ pc = "Planned"
        /\ SubstringOf(<<" ","W","H","E","R","E"," ">> \o find_date_column(table_schema).val
                       \o <<" ","B","E","T","W","E","E","N"," ",":","s","t","a","r","t","_","d","a","t","e"," ","A","N","D"," ",":","e","n","d","_","d","a","t","e">>,
                       plan.val.sql)
        /\ ParamOf(<<"s","t","a","r","t","_","d","a","t","e">>) = [str |-> IsoFormat(today - 365)]
        /\ ParamOf(<<"e","n","d","_","d","a","t","e">>) = [str |-> IsoFormat(today)]
        /\ InSeq(<<"a","u","t","o"," ","d","a","t","e"," ","w","i","n","d","o","w"," ">> \o IsoFormat(today - 365) \o <<" ","t","o"," ">>
                 \o IsoFormat(today), plan.val.auto_applied)

\* the statement the outcome of synthesis carries
OutcomeSql ==
    IF pc = "Planned" THEN plan.val.sql ELSE response.val.sql_preview

OutcomeAutoApplied ==
    IF pc = "Planned" THEN plan.val.auto_applied
    ELSE response.val.auto_applied

\* C15: when the text says `last 30 days` and the table has a qualifying
\* date column, the statement of the outcome holds
\* BETWEEN :start_date AND :end_date bound to the thirty days up to today,
\* and no auto date window note is given, whatever the row count
C15_ExplicitRangeWins ==
    (/\ Synthesized
     /\ Contains(request.user_text, <<"l","a","s","t"," ","3","0"," ","d","a","y","s">>)
     /\ find_date_column(table_schema).some) =>
        /\ SubstringOf(<<"B","E","T","W","E","E","N"," ",":","s","t","a","r","t","_","d","a","t","e"," ","A","N","D"," ",":","e","n","d","_","d","a","t","e">>, OutcomeSql)
        /\ ~HasAutoWindowNote(OutcomeAutoApplied)
        /\ pc = "Planned" =>
              /\ ParamOf(<<"s","t","a","r","t","_","d","a","t","e">>) = [str |-> IsoFormat(today - 30)]
              /\ ParamOf(<<"e","n","d","_","d","a","t","e">>) = [str |-> IsoFormat(today)]

\* the clause keywords of a statement, in the order they stand in it
ClauseKeywords(sql) ==
    SelectSeq(Tokens(sql),
              LAMBDA w : w \in {<<"S","E","L","E","C","T">>, <<"F","R","O","M">>, <<"W","H","E","R","E">>, <<"G","R","O","U","P">>,
                                <<"O","R","D","E","R">>, <<"L","I","M","I","T">>})

\* C16: a synthesized statement has one SELECT list and one FROM clause,
\* then WHERE, GROUP BY and ORDER BY in this order, each at most once, and
\* LIMIT at the end
C16_ClauseOrder ==
    pc = "Planned" =>
        \E w, g, o \in BOOLEAN :
            ClauseKeywords(plan.val.sql)
                = <<<<"S","E","L","E","C","T">>, <<"F","R","O","M">>>>
                  \o (IF w THEN <<<<"W","H","E","R","E">>>> ELSE <<>>)
                  \o (IF g THEN <<<<"G","R","O","U","P">>>> ELSE <<>>)
                  \o (IF o THEN <<<<"O","R","D","E","R">>>> ELSE <<>>)
                  \o <<<<"L","I","M","I","T">>>>

(***************************************************************************)
(* The Extractor across requests: extract_query_components is run for one  *)
(* request after another, and date.today() moves on at midnight            *)
(***************************************************************************)
MaxRuns == 3

MaxDays == 2

\* the texts requests carry
ExtractTexts ==
    {<<"o","r","d","e","r","s"," ","l","a","s","t"," ","3","0"," ","d","a","y","s">>,
     <<"s","h","o","w"," ","o","r","d","e","r","s"," ","t","h","i","s"," ","w","e","e","k">>,
     <<"s","e","l","e","c","t"," ","i","d"," ","f","r","o","m"," ","o","r","d","e","r","s"," ","w","h","e","r","e"," ","s","t","a","t","u","s"," ","="," ","'","o","p","e","n","'"," ","a","n","d"," ","i","d"," ","i","n"," ","(","1",","," ","2",")">>,
     <<"n","a","m","e"," ","l","i","k","e"," ","'","a","b","%","'"," ","o","r","d","e","r"," ","b","y"," ","i","d"," ","g","r","o","u","p"," ","b","y"," ","i","d">>,
     <<"s","e","l","e","c","t"," ","i","d",","," ","n","a","m","e"," ","f","r","o","m"," ","o","r","d","e","r","s">>}

\* 2026-11-04
FirstDay == 739924

\* the first day and the days after it
ExtractDays == {FirstDay + k : k \in 0..(MaxDays - 1)}

InitExtract ==
    /\ pc = "Extract"
    /\ RequestIdle
    /\ ServerIdle
    /\ today = FirstDay
    /\ query_filter = None
    /\ row_count = 0
    /\ plan = None
    /\ CostIdle
    /\ ExtractIdle
    /\ ConnIdle

\* a request arrives and process_mcp_request runs line 152 on its text;
\* query_filter is the instance the run before left behind
ExtractRun ==
    /\ pc = "Extract"
    /\ Len(extracted) < MaxRuns
    /\ \E ut \in ExtractTexts :
       \E result \in {extract_query_components(ut, today,
                                               QueryFilter(query_filter))} :
           /\ request' = [NoRequest EXCEPT !.user_text = ut]
           /\ query_filter' = Some(result)
           /\ extracted' = Append(extracted, [text |-> ut, day |-> today,
                                              intent |-> result])
    /\ UNCHANGED <<pc, table_name, table_schema, response, raised>>
    /\ UNCHANGED <<serverVars, today, row_count, plan, costVars, connVars>>

\* the day ends: date.today() returns the next date from now on
Midnight ==
    /\ pc = "Extract"
    /\ today + 1 \in ExtractDays
    /\ today' = today + 1
    /\ UNCHANGED <<requestVars, serverVars, query_filter, row_count, plan>>
    /\ UNCHANGED <<costVars, extractVars, connVars>>

NextExtract ==
    \/ ExtractRun
    \/ Midnight

SpecExtract == InitExtract /\ [][NextExtract]_vars

\* two runs of the Extractor on the same text
SameText(i, j) == extracted[i].text = extracted[j].text

\* C19 as stated: any two runs of the Extractor on the same text yield
\* equal intents, whatever happened in between
C19_SameTextSameIntent ==
    \A i, j \in 1..Len(extracted) :
        SameText(i, j) => extracted[i].intent = extracted[j].intent

\* C19: two runs of the Extractor on the same text on the same day yield
\* equal intents (columns, filters, start_date, end_date, order_by,
\* group_by), whatever the runs before left behind
C19_SameTextSameDaySameIntent ==
    \A i, j \in 1..Len(extracted) :
        (SameText(i, j) /\ extracted[i].day = extracted[j].day) =>
            extracted[i].intent = extracted[j].intent

\* a text without filters is run twice on one day, with a request that
\* leaves filters behind in between
C19_Witness ==
    \E i, j, k \in 1..Len(extracted) :
        /\ i < j /\ j < k
        /\ SameText(i, k) /\ extracted[i].day = extracted[k].day
        /\ extracted[i].intent.filters = <<>>
        /\ extracted[j].intent.filters # <<>>
        /\ extracted[k].intent = extracted[i].intent

(***************************************************************************)
(* DatabaseManager._get_connection, get_cursor and close (utils/database.py*)
(* 21-58, 195-200) called from several threads                             *)
(***************************************************************************)
MaxThreads == 2

MaxConnections == 4

Threads == 1..MaxThreads

\* self._local without a `connection` attribute
NoAttribute == [attribute |-> FALSE]

\* self._local.connection = value
Attribute(value) == [attribute |-> TRUE, value |-> value]

\* an attribute of an ordinary object: every thread reads and writes the
\* same one
SharedSlot(t) == 1

\* threading.local(): every thread reads and writes attributes of its own
LocalSlot(t) == t

InitConn ==
    /\ pc = "Idle"
    /\ RequestIdle
    /\ ServerIdle
    /\ PlanIdle
    /\ CostIdle
    /\ ExtractIdle
    /\ local = [t \in Threads |-> NoAttribute]
    /\ connections = <<>>
    /\ using = [t \in Threads |-> None]
    /\ managers = <<>>

\* `not hasattr(self._local, "connection") or self._local.connection is None`
NeedsConnection(t) ==
    \/ ~local[LocalSlot(t)].attribute
    \/ ~local[LocalSlot(t)].value.some

\* thread t enters `with self.get_cursor()`: _get_connection connects when
\* the thread has no connection, and the cursor is made on the connection
\* of the thread
GetCursor(t) ==
    /\ ~using[t].some
    /\ IF NeedsConnection(t)
       THEN /\ Len(connections) < MaxConnections
            /\ connections' = Append(connections,
                                     [opener |-> t, closed |-> FALSE])
            /\ local' = [local EXCEPT ![LocalSlot(t)] =
                             Attribute(Some(Len(connections) + 1))]
            /\ using' = [using EXCEPT ![t] = Some(Len(connections) + 1)]
       ELSE /\ using' = [using EXCEPT ![t] = local[LocalSlot(t)].value]
            /\ UNCHANGED <<local, connections>>
    /\ UNCHANGED <<requestVars, serverVars, planVars, costVars, extractVars>>
    /\ UNCHANGED managers

\* thread t leaves the with block: cursor.close()
ReleaseCursor(t) ==
    /\ using[t].some
    /\ using' = [using EXCEPT ![t] = None]
    /\ UNCHANGED <<local, connections>>
    /\ UNCHANGED <<requestVars, serverVars, planVars, costVars, extractVars>>
    /\ UNCHANGED managers

\* thread t calls close() on a manager whose attribute holds a connection:
\* the connection is closed and the attribute set to None
Close(t) ==
    /\ ~using[t].some
    /\ local[LocalSlot(t)].attribute
    /\ local[LocalSlot(t)].value.some
    /\ connections' = [connections EXCEPT
                           ![local[LocalSlot(t)].value.val].closed = TRUE]
    /\ local' = [local EXCEPT ![LocalSlot(t)] = Attribute(None)]
    /\ UNCHANGED using
    /\ UNCHANGED <<requestVars, serverVars, planVars, costVars, extractVars>>
    /\ UNCHANGED managers

NextConn ==
    \/ \E t \in Threads : GetCursor(t)
    \/ \E t \in Threads : ReleaseCursor(t)
    \/ \E t \in Threads : Close(t)

SpecConn == InitConn /\ [][NextConn]_vars

\* the connections thread t opened and has not closed
OpenConnectionsOf(t) ==
    {c \in 1..Len(connections) :
        connections[c].opener = t /\ ~connections[c].closed}

\* C20: a connection is used only by the thread that opened it, no two
\* threads hold the same connection at the same time, and a thread has at
\* most one open connection
C20_ConnectionsAreThreadLocal ==
    /\ \A t \in DOMAIN using :
          using[t].some => connections[using[t].val].opener = t
    /\ \A t, u \in DOMAIN using :
          (t # u /\ using[t].some /\ using[u].some) => using[t] # using[u]
    /\ \A t \in DOMAIN using : Cardinality(OpenConnectionsOf(t)) <= 1

\* two threads are inside get_cursor at the same time, one of them on the
\* connection it opened after closing its first
C20_Witness ==
    /\ \A t \in DOMAIN using : using[t].some
    /\ \E t, u \in DOMAIN using :
          /\ t # u
          /\ using[t] # using[u]
          /\ \E c \in 1..Len(connections) :
                connections[c].opener = t /\ connections[c].closed

(***************************************************************************)
(* The exploration tools that start from DatabaseManager.get_all_tables    *)
(* (src/utils/exploration.py 149-213), on a database that may be           *)
(* unreachable                                                             *)
(***************************************************************************)
\* the table names a database may hold, as ORDER BY name returns them
TableNames == <<<<"e","v","e","n","t","s">>, <<"o","r","d","e","r","s">>, nmWidgets>>

\* the databases behind the manager: `connect` stands for a file
\* sqlite3.connect cannot open
ExploreDbs ==
    {[tables |-> ts, schema |-> WidgetsSchema, row_count |-> rc,
      fault |-> f, execute_fails |-> FALSE] :
        ts \in SUBSET {TableNames[i] : i \in 1..Len(TableNames)},
        rc \in {0, 5}, f \in {"none", "connect"}}

\* the column names find_tables_by_column is asked for
ExploreColumns == {<<"I","D">>, <<"n","o","p","e">>}

\* sqlite3.connect fails inside _get_connection
Unreachable(d) == d.fault = "connect"

\* DatabaseManager.get_all_tables: the names in order; any exception,
\* the failure to connect included, is logged and an empty list returned
get_all_tables(d) ==
    IF Unreachable(d) THEN <<>>
    ELSE SelectSeq(TableNames, LAMBDA name : name \in d.tables)

\* "No tables found in the database."
NoTablesFound == [kind |-> "no_tables_found"]

\* ExplorationService.get_all_tables
list_all_tables(d) ==
    With(get_all_tables(d), LAMBDA tables :
        IF tables = <<>> THEN NoTablesFound
        ELSE [kind |-> "tables", tables |-> tables])

\* ExplorationService.get_database_overview: a reachable database answers
\* get_row_count and get_table_schema for each of its tables
get_database_overview(d) ==
    With(get_all_tables(d), LAMBDA tables :
        IF tables = <<>> THEN NoTablesFound
        ELSE [kind |-> "overview",
              found |-> Len(tables),
              lines |-> [i \in 1..Len(tables) |->
                            [table |-> tables[i], rows |-> d.row_count,
                             columns |-> Len(d.schema)]]])

\* ExplorationService.find_tables_by_column: `for table, col, dtype in
\* matches` unpacks a str of more than three characters, and the
\* ValueError is reported by the handler of lines 172-174
find_tables_by_column(d, column_name) ==
    With(get_all_tables(d), LAMBDA tables :
    With(Lower(column_name), LAMBDA name :
    With(SelectSeq(tables, LAMBDA table : SchemaHas(d.schema, name)),
         LAMBDA matches :
        IF matches = <<>>
        THEN [kind |-> "no_tables_with_column", column |-> column_name]
        ELSE [kind |-> "error_finding_tables",
              exc |-> [type |-> "ValueError",
                       msg |-> "too many values to unpack (expected 3)"]])))

InitExplore ==
    /\ pc = "Idle"
    /\ RequestIdle
    /\ db \in ExploreDbs
    /\ calls = <<>>
    /\ text = None
    /\ served = 0
    /\ PlanIdle
    /\ CostIdle
    /\ ExtractIdle
    /\ ConnIdle

\* list_all_tables
ListAllTables ==
    /\ pc = "Idle"
    /\ text' = Some(list_all_tables(db))
    /\ calls' = <<"get_all_tables">>
    /\ pc' = "Listed"
    /\ UNCHANGED <<request, table_name, table_schema, response, raised>>
    /\ UNCHANGED <<db, served, planVars, costVars, extractVars, connVars>>

\* get_database_overview
GetDatabaseOverview ==
    /\ pc = "Idle"
    /\ text' = Some(get_database_overview(db))
    /\ calls' = <<"get_all_tables">>
                \o [i \in 1..(2 * Len(get_all_tables(db))) |->
                       IF i % 2 = 1 THEN "get_row_count"
                       ELSE "get_table_schema"]
    /\ pc' = "Overviewed"
    /\ UNCHANGED <<request, table_name, table_schema, response, raised>>
    /\ UNCHANGED <<db, served, planVars, costVars, extractVars, connVars>>

\* find_tables_by_column
FindTablesByColumn ==
    /\ pc = "Idle"
    /\ \E column_name \in ExploreColumns :
          text' = Some(find_tables_by_column(db, column_name))
    /\ calls' = <<"get_all_tables">>
                \o [i \in 1..Len(get_all_tables(db)) |-> "get_table_schema"]
    /\ pc' = "Found"
    /\ UNCHANGED <<request, table_name, table_schema, response, raised>>
    /\ UNCHANGED <<db, served, planVars, costVars, extractVars, connVars>>

NextExplore ==
    \/ ListAllTables
    \/ GetDatabaseOverview
    \/ FindTablesByColumn

SpecExplore == InitExplore /\ [][NextExplore]_vars

\* a tool has answered
Explored == pc \in {"Listed", "Overviewed", "Found"}

\* what the three tools answer on the databases that can be reached: an
\* empty database, tables without the column, a failing lookup
QueryLevelOutcomes ==
    LET reachable == {d \in ExploreDbs : ~Unreachable(d)}
    IN  {list_all_tables(d) : d \in reachable}
        \cup {get_database_overview(d) : d \in reachable}
        \cup {find_tables_by_column(d, c) :
                 d \in reachable, c \in ExploreColumns}

\* C21: when the database cannot be reached, what the caller gets is an
\* outcome no reachable database gives
C21_UnreachableIsDistinct ==
    (Explored /\ Unreachable(db)) => text.val \notin QueryLevelOutcomes

(***************************************************************************)
(* Binding the plan's parameters: DatabaseManager.execute_query            *)
(* (database.py 60-83)                                                     *)
(***************************************************************************)
\* str.replace(old, new): every occurrence, left to right
RECURSIVE ReplaceAll(_, _, _)
ReplaceAll(s, old, new) ==
    With(Find(s, old, 1), LAMBDA i :
        IF i = 0 THEN s
        ELSE Slice(s, 1, i - 1) \o new
             \o ReplaceAll(Slice(s, i + Len(old), Len(s)), old, new))

\* the loop over params.items() (lines 69-78): a list value becomes
\* (?,?,..) and its items are bound, any other value becomes ? and is bound
RECURSIVE BindLoop(_, _, _, _)
BindLoop(modified_query, param_list, params, i) ==
    IF i > Len(params) THEN [query |-> modified_query, param_list |-> param_list]
    ELSE With(params[i], LAMBDA item :
             IF "list" \in DOMAIN item.value
             THEN BindLoop(
                      ReplaceAll(modified_query, <<":">> \o item.key,
                                 <<"(">> \o Join([k \in 1..Len(item.value.list) |-> <<"?">>], <<",">>)
                                 \o <<")">>),
                      param_list \o item.value.list, params, i + 1)
             ELSE BindLoop(
                      ReplaceAll(modified_query, <<":">> \o item.key, <<"?">>),
                      Append(param_list, item.value), params, i + 1))

\* what cursor.execute is called with (lines 66-81)
bind_params(query, params) ==
    IF params # <<>> THEN BindLoop(query, <<>>, params, 1)
    ELSE [query |-> query, param_list |-> <<>>]

(***************************************************************************)
(* From the plan to the decision: lines 152 and 172-239 of                 *)
(* process_mcp_request, for a request whose table, schema and row count    *)
(* the storage calls of lines 160-168 have answered                        *)
(***************************************************************************)
\* str.split(lit, 1)[0]
BeforeFirst(s, lit) ==
    With(Find(s, lit, 1), LAMBDA i :
        IF i = 0 THEN s ELSE Slice(s, 1, i - 1))

\* str.split(lit, 1)[1], for a str that holds lit
AfterFirst(s, lit) ==
    With(Find(s, lit, 1), LAMBDA i : Slice(s, i + Len(lit), Len(s)))

\* lines 180-188: the list handed to the Cost Estimator
where_conditions_of(sql) ==
    IF SubstringOf(<<"W","H","E","R","E">>, sql)
    THEN With(IF SubstringOf(<<"O","R","D","E","R"," ","B","Y">>, sql)
              THEN BeforeFirst(AfterFirst(sql, <<"W","H","E","R","E">>), <<"O","R","D","E","R"," ","B","Y">>)
              ELSE AfterFirst(sql, <<"W","H","E","R","E">>), LAMBDA where_part :
             <<Strip(where_part)>>)
    ELSE <<>>

\* id INTEGER, origin TEXT, created_at DATETIME
LoginsSchema ==
    <<[name |-> <<"i","d">>, type |-> <<"I","N","T","E","G","E","R">>],
      [name |-> <<"o","r","i","g","i","n">>, type |-> <<"T","E","X","T">>],
      [name |-> <<"c","r","e","a","t","e","d","_","a","t">>, type |-> <<"D","A","T","E","T","I","M","E">>]>>

PlanTables ==
    {[name |-> <<"o","r","d","e","r","s">>, schema |-> OrdersSchema],
     [name |-> <<"l","o","g","i","n","s">>, schema |-> LoginsSchema]}

PlanTexts ==
    {<<"s","e","l","e","c","t"," ","i","d"," ","f","r","o","m"," ","t"," ","g","r","o","u","p"," ","b","y"," ","i","d",";"," ","o","r","d","e","r"," ","b","y"," ","i","d">>,
     <<"s","e","l","e","c","t"," ","i","d"," ","f","r","o","m"," ","t"," ","w","h","e","r","e"," ","s","t","a","t","u","s"," ","="," ","'","o","p","e","n","'"," ","a","n","d"," ","n","a","m","e"," ","l","i","k","e"," ","'","a","b","%","'"," ","g","r","o","u","p"," ","b","y"," ","i","d",";"," ","o","r","d","e","r"," ","b","y"," ","i","d">>,
     <<"s","e","l","e","c","t"," ","i","d"," ","f","r","o","m"," ","t"," ","l","a","s","t"," ","3","0"," ","d","a","y","s"," ","g","r","o","u","p"," ","b","y"," ","O","R","I","G","I","N",";"," ","o","r","d","e","r"," ","b","y"," ","i","d">>,
     <<"s","e","l","e","c","t"," ","i","d"," ","f","r","o","m"," ","t"," ","w","h","e","r","e"," ","i","d"," ","i","n"," ","(","1",","," ","2",")"," ","g","r","o","u","p"," ","b","y"," ","i","d",";"," ","o","r","d","e","r"," ","b","y"," ","i","d">>,
     <<"s","h","o","w"," ","t">>}

PlanRowCounts == {0, 5, 50000}

PlanLimits == {None, Some(0), Some(10)}

PlanBudgets == {None, Some(0), Some(3), Some(20000)}

InitPlanCost ==
    /\ pc = "Extract"
    /\ \E ut \in PlanTexts, tb \in PlanTables, lm \in PlanLimits,
          rb \in PlanBudgets :
          /\ request = [user_text |-> ut, table |-> tb.name,
                        rows_budget |-> rb, limit |-> lm]
          /\ table_name = normalize_table_ref(tb.name)
          /\ table_schema = tb.schema
    /\ response = None
    /\ raised = None
    /\ ServerIdle
    /\ today = FirstDay
    /\ query_filter = None
    /\ row_count \in PlanRowCounts
    /\ plan = None
    /\ CostIdle
    /\ ExtractIdle
    /\ ConnIdle

\* lines 180-191
EstimatePlan ==
    /\ pc = "Planned"
    /\ \E conds \in {where_conditions_of(plan.val.sql)} :
          /\ where_conditions' = conds
          /\ estimated_rows' =
                 Some(estimate_query_cost(table_name, conds, row_count))
    /\ pc' = "Estimated"
    /\ UNCHANGED <<request, table_name, table_schema, response, raised>>
    /\ UNCHANGED <<serverVars, planVars, sampling_sql>>
    /\ UNCHANGED <<extractVars, connVars>>

\* sqlite3.ProgrammingError of cursor.execute for a parameter list whose
\* length is not the number of ? marks of the statement
ProgrammingErrorBindings ==
    [type |-> "sqlite3.Error", msg |-> "Incorrect number of bindings supplied"]

\* sqlite3.OperationalError of cursor.execute for a statement with a
\* second FROM clause
OperationalErrorNearFrom ==
    [type |-> "sqlite3.Error", msg |-> "near \"FROM\": syntax error"]

\* DatabaseManager.execute_query (database.py 60-88): the rows, or the
\* sqlite3.Error it logs and raises again
execute_query(d, query, params) ==
    With(bind_params(query, params), LAMBDA bound :
        IF Len(SelectSeq(Tokens(bound.query),
                         LAMBDA w : w = <<"F","R","O","M">>)) > 1
        THEN [ok |-> FALSE, exc |-> OperationalErrorNearFrom]
        ELSE IF Len(bound.param_list) # Len(SelectSeq(bound.query, LAMBDA c : c = "?"))
        THEN [ok |-> FALSE, exc |-> ProgrammingErrorBindings]
        ELSE IF d.execute_fails
        THEN [ok |-> FALSE, exc |-> SqliteError]
        ELSE [ok |-> TRUE, rows |-> <<>>])

\* lines 193-239: the statement is executed when the estimate is within
\* `request.rows_budget or MAX_ROWS_BUDGET`; otherwise the sampled statement
\* is built and line 219 reads `rows`, which no line has bound yet
Decide ==
    /\ pc = "Estimated"
    /\ IF estimated_rows.val <= OrDefault(request.rows_budget, MAX_ROWS_BUDGET)
       THEN /\ \E r \in {execute_query(db, plan.val.sql, plan.val.params)} :
                  Return(IF r.ok
                         THEN MCPResponse(plan.val.sql, plan.val.params,
                                          plan.val.auto_applied, Some(r.rows),
                                          None, estimated_rows,
                                          Some("elapsed"))
                         ELSE MCPResponse(plan.val.sql, plan.val.params,
                                          plan.val.auto_applied, None,
                                          Some([kind |-> "execution_error",
                                                exc |-> r.exc]),
                                          None, None))
            /\ UNCHANGED sampling_sql
       ELSE /\ sampling_sql' =
                   Some(add_sampling(plan.val.sql, SAMPLING_RATE_PERCENT))
            /\ Raise(UnboundLocalErrorFor("rows"))
    /\ UNCHANGED <<request, table_name, table_schema>>
    /\ UNCHANGED <<serverVars, planVars, where_conditions, estimated_rows>>
    /\ UNCHANGED <<extractVars, connVars>>

NextPlanCost ==
    \/ ExtractComponents
    \/ Synthesize
    \/ EstimatePlan
    \/ Decide

SpecPlanCost == InitPlanCost /\ [][NextPlanCost]_vars

\* the conditions of the plan as build_where_clause emitted them, one
\* entry each, in order
EmittedConditions ==
    build_where_clause(query_filter.val.filters, table_schema,
                       query_filter.val.start_date, query_filter.val.end_date,
                       find_date_column(table_schema)).where_clauses

\* C22: the estimate compared with the budget is the Cost Estimator's value
\* for the plan's conditions, one list entry per condition in the order
\* they were emitted, and the row count (the row count itself when there is
\* no condition); the GROUP BY and LIMIT text is no part of the list
C22_EstimateOfEmittedConditions ==
    pc = "Estimated" =>
        estimated_rows.val =
            estimate_query_cost(table_name, EmittedConditions, row_count)

\* the named placeholders of a statement, in order: a colon and the name
\* after it
Placeholders(sql) ==
    With(SelectSeq([i \in 1..Len(sql) |-> i],
                   LAMBDA i : sql[i] = ":" /\ RunEnd(sql, i + 1, WordClass) > i),
         LAMBDA at :
        [k \in 1..Len(at) |->
            Slice(sql, at[k] + 1, RunEnd(sql, at[k] + 1, WordClass))])

\* the keys of a dict, in order
Keys(d) == [i \in 1..Len(d) |-> d[i].key]

\* the members of a sequence
Range(s) == {s[i] : i \in 1..Len(s)}

\* a plan has been synthesized
Planned == plan.some

\* C23: the keys of a plan's params are exactly the named placeholders of
\* its sql, each placeholder occurs once, and the storage layer binds as
\* many values as the statement it executes has ? marks
C23_ParamsArePlaceholders ==
    Planned =>
        /\ Range(Keys(plan.val.params)) = Range(Placeholders(plan.val.sql))
        /\ Len(Placeholders(plan.val.sql))
               = Cardinality(Range(Placeholders(plan.val.sql)))
        /\ \E bound \in {bind_params(plan.val.sql, plan.val.params)} :
              Len(bound.param_list)
                  = Len(SelectSeq(bound.query, LAMBDA c : c = "?"))

\* C23 without the limit: every key of params but `limit` is a placeholder
\* and every placeholder is a key
C23_ExceptLimit ==
    Planned =>
        /\ Range(Keys(plan.val.params)) \ {<<"l","i","m","i","t">>}
               = Range(Placeholders(plan.val.sql))
        /\ Len(Placeholders(plan.val.sql))
               = Cardinality(Range(Placeholders(plan.val.sql)))

\* the place of a condition in the claimed order: 1 for the date range, 2
\* for a pattern filter, 3 for a set-membership filter, 4 for an equality
ConditionRank(condition) ==
    IF SubstringOf(<<" ","B","E","T","W","E","E","N"," ",":","s","t","a","r","t","_","d","a","t","e"," ","A","N","D"," ",":","e","n","d","_","d","a","t","e">>, condition) THEN 1
    ELSE IF SubstringOf(<<" ","L","I","K","E"," ",":">>, condition) THEN 2
    ELSE IF SubstringOf(<<" ","I","N"," ","(">>, condition) THEN 3
    ELSE 4

\* C24: the conditions of a plan stand in the order date range, pattern
\* filters, set-membership filters, equality filters
C24_ConditionOrder ==
    Planned =>
        \A i, j \in 1..Len(EmittedConditions) :
            i < j => ConditionRank(EmittedConditions[i])
                         <= ConditionRank(EmittedConditions[j])

\* C24 for the date range alone: when the plan has a date range, it is the
\* first condition
C24_DateRangeFirst ==
    Planned =>
        \A i \in 1..Len(EmittedConditions) :
            ConditionRank(EmittedConditions[i]) = 1 => i = 1

\* what C25 says of a statement, for an intent and the columns selected
GroupingAndOrderingOf(sql, intent, schema) ==
    LET group == PresentIn(intent.group_by, schema)
        selected == PresentIn(intent.columns, schema)
    IN  /\ SubstringOf(<<" ","G","R","O","U","P"," ","B","Y"," ">>, sql) <=> group # <<>>
        /\ IF Truthy(intent.order_by)
           THEN SubstringOf(<<" ","O","R","D","E","R"," ","B","Y"," ">> \o intent.order_by.val \o SP, sql)
           ELSE IF group = <<>>
           THEN SubstringOf(<<"O","R","D","E","R"," ","B","Y"," ">> \o selected[1] \o SP, sql)
           ELSE ~SubstringOf(<<"O","R","D","E","R"," ","B","Y">>, sql)

\* C25: for an intent whose columns are in the schema, synthesis succeeds
\* whatever the grouping and ordering of the intent; the statement has a
\* GROUP BY clause exactly when a group-by column is in the schema, and its
\* ORDER BY is the caller's when given, else the first selected column when
\* nothing is grouped, else absent
C25_GroupingAndOrdering ==
    (Synthesized /\ PresentIn(Intent.columns, table_schema) # <<>>) =>
        /\ pc = "Planned"
        /\ GroupingAndOrderingOf(plan.val.sql, Intent, table_schema)

\* C25 for the statements that are synthesized
C25_WhenSynthesized ==
    pc = "Planned" =>
        GroupingAndOrderingOf(plan.val.sql, Intent, table_schema)

\* the limit the request carries, the default when it carries none
RequestLimit ==
    IF request.limit.some THEN request.limit.val ELSE DEFAULT_LIMIT

\* the decision went for the plan's own statement: the response shows it
DecidedToExecute == response.val.sql_preview = plan.val.sql

\* the decision of lines 193-239 has been taken
Decided == pc = "Responded" /\ estimated_rows.some

\* C26: the LIMIT of the statement is the request's limit, 0 included, and
\* the default only when the request carries none; the statement is
\* executed exactly when the estimate is within the request's rows budget,
\* 0 included, and within the maximum budget only when the request carries
\* none
C26_LimitAndBudgetAsSupplied ==
    /\ Planned => EndsWith(plan.val.sql, <<" ","L","I","M","I","T"," ">> \o IntToStr(RequestLimit))
    /\ Decided => (DecidedToExecute <=> estimated_rows.val <= RequestBudget)

\* C26 for the requests that carry no 0
C26_ExceptZero ==
    (/\ request.limit # Some(0)
     /\ request.rows_budget # Some(0)) =>
        /\ Planned => EndsWith(plan.val.sql, <<" ","L","I","M","I","T"," ">> \o IntToStr(RequestLimit))
        /\ Decided => (DecidedToExecute <=> estimated_rows.val <= RequestBudget)

(***************************************************************************)
(* The Extractor on its own: line 152 of process_mcp_request for texts     *)
(* with date ranges and orderings, on the days of one week                 *)
(***************************************************************************)
IntentTexts ==
    {<<"s","h","o","w"," ","t">>,
     <<"t"," ","w","h","e","r","e"," ","c","r","e","a","t","e","d","_","a","t"," ","b","e","t","w","e","e","n"," ","'","2","0","2","4","-","0","1","-","0","1","'"," ","a","n","d"," ","'","2","0","2","4","-","0","2","-","0","1","'">>,
     <<"t"," ","w","h","e","r","e"," ","c","r","e","a","t","e","d","_","a","t"," ","b","e","t","w","e","e","n"," ","'","2","0","2","4","-","0","1","-","0","1","'"," ","a","n","d"," ","'","2","0","2","4","-","0","2","-","0","1","'"," ","l","a","s","t"," ","7"," ","d","a","y","s">>,
     <<"t"," ","l","a","s","t"," ","7"," ","d","a","y","s">>,
     <<"t"," ","l","a","s","t"," ","7"," ","d","a","y","s"," ","t","h","i","s"," ","w","e","e","k">>,
     <<"t"," ","t","h","i","s"," ","w","e","e","k">>,
     <<"t"," ","t","h","i","s"," ","w","e","e","k"," ","t","h","i","s"," ","m","o","n","t","h">>,
     <<"t"," ","t","h","i","s"," ","m","o","n","t","h">>,
     <<"t"," ","t","h","i","s"," ","m","o","n","t","h"," ","t","h","i","s"," ","w","e","e","k">>,
     <<"t"," ","o","r","d","e","r"," ","b","y"," ","i","d">>,
     <<"t"," ","o","r","d","e","r"," ","b","y"," ","i","d"," ","a","s","c">>,
     <<"t"," ","o","r","d","e","r"," ","b","y"," ","i","d"," ","d","e","s","c">>,
     <<"t"," ","o","r","d","e","r"," ","b","y"," ","i","d",","," ","n","a","m","e"," ","D","E","S","C">>,
     <<"t"," ","o","r","d","e","r"," ","b","y"," ","i","d"," ","g","r","o","u","p"," ","b","y"," ","i","d">>,
     <<"t"," ","o","r","d","e","r"," ","b","y"," ","i","d"," ","l","i","m","i","t"," ","5">>}

\* Thursday 2026-10-29 to Wednesday 2026-11-04
IntentDays == {FirstDay - k : k \in 0..6}

InitIntent ==
    /\ pc = "Extract"
    /\ \E ut \in IntentTexts : request = [NoRequest EXCEPT !.user_text = ut]
    /\ table_name = <<>>
    /\ table_schema = <<>>
    /\ response = None
    /\ raised = None
    /\ ServerIdle
    /\ today \in IntentDays
    /\ query_filter = None
    /\ row_count = 0
    /\ plan = None
    /\ CostIdle
    /\ ExtractIdle
    /\ ConnIdle

NextIntent == ExtractComponents

SpecIntent == InitIntent /\ [][NextIntent]_vars

\* the Extractor has run on the request's text
Extracted == pc = "Synthesize"

\* the range the date rules stand for, tried in the order explicit range,
\* last N days, this week, this month
ClaimedDates(s, day) ==
    LET between == BetweenSearch(s)
        last == LastDaysSearch(s)
    IN  IF between.ok
        THEN [start_date |-> Some(between.group2),
              end_date |-> Some(between.group3)]
        ELSE IF last.ok
        THEN [start_date |-> Some(IsoFormat(day - StrToInt(last.group1))),
              end_date |-> Some(IsoFormat(day))]
        ELSE IF ThisSearch(s, <<"w","e","e","k">>)
        THEN [start_date |-> Some(IsoFormat(day - Weekday(day))),
              end_date |-> Some(IsoFormat(day))]
        ELSE IF ThisSearch(s, <<"m","o","n","t","h">>)
        THEN [start_date |-> Some(IsoFormat(FirstOfMonth(day))),
              end_date |-> Some(IsoFormat(day))]
        ELSE [start_date |-> None, end_date |-> None]

\* C27: the first date rule that matches, in the order explicit
\* `<col> between 'd1' and 'd2'`, `last N days`, `this week`, `this month`,
\* sets the range: d1 to d2, today - N to today, Monday of the week to
\* today, the first of the month to today; without a match both bounds stay
\* unset
C27_FirstDateRuleWins ==
    Extracted =>
        /\ query_filter.val.start_date
               = ClaimedDates(request.user_text, today).start_date
        /\ query_filter.val.end_date
               = ClaimedDates(request.user_text, today).end_date

\* C27 for the texts without an explicit range
C27_RelativeRules ==
    (Extracted /\ ~BetweenSearch(request.user_text).ok) =>
        /\ query_filter.val.start_date
               = ClaimedDates(request.user_text, today).start_date
        /\ query_filter.val.end_date
               = ClaimedDates(request.user_text, today).end_date

\* the words after `order by` up to a direction word or the word that
\* starts another clause
OrderColumns(toks) ==
    LET o == KeywordPlace(toks, <<<<"O","R","D","E","R">>, <<"B","Y">>>>)
        stops == {i \in (o + 2)..Len(toks) :
                     Upper(toks[i]) \in {<<"A","S","C">>, <<"D","E","S","C">>, <<"G","R","O","U","P">>, <<"L","I","M","I","T">>}}
        e == IF stops = {} THEN Len(toks) ELSE Leftmost(stops) - 1
    IN  [cols |-> Join(SubSeq(toks, o + 2, e), SP),
         last |-> e = Len(toks),
         direction |-> IF e < Len(toks) /\ Upper(toks[e + 1]) = <<"D","E","S","C">>
                       THEN <<"D","E","S","C">> ELSE <<"A","S","C">>]

\* C28: for a text with `order by <cols>` and an optional direction the
\* intent's order_by is `<cols> DESC` when the direction is desc and
\* `<cols> ASC` otherwise, <cols> ending before the direction word and
\* before the words of a following clause
C28_OrderByDirection ==
    (Extracted /\ Contains(request.user_text, <<"o","r","d","e","r"," ","b","y"," ">>)) =>
        \E o \in {OrderColumns(Tokens(request.user_text))} :
            query_filter.val.order_by = Some(o.cols \o SP \o o.direction)

\* C28 for the texts that end with the column list
C28_ColumnsAtTheEnd ==
    (/\ Extracted
     /\ Contains(request.user_text, <<"o","r","d","e","r"," ","b","y"," ">>)
     /\ OrderColumns(Tokens(request.user_text)).last) =>
        \E o \in {OrderColumns(Tokens(request.user_text))} :
            query_filter.val.order_by = Some(o.cols \o SP \o <<"A","S","C">>)

(***************************************************************************)
(* Managers and their connections on one thread: get_db_manager            *)
(* (database.py 203-205) as the tools of the server call it, and the       *)
(* queries and close() calls on the managers it returns                    *)
(***************************************************************************)
\* managers constructed in one run
MaxManagers == 3

\* the db_path of a request
DbPaths == {"a.db", "b.db"}

\* DatabaseManager.__init__: a new threading.local() and the path
DatabaseManager(db_path) == [db_path |-> db_path, local |-> NoAttribute]

\* `None.close()`
AttributeErrorNoneClose ==
    [type |-> "AttributeError",
     msg  |-> "'NoneType' object has no attribute 'close'"]

\* get_db_manager: `return DatabaseManager(db_path)`; the instance it
\* returns stands at the end of ms
get_db_manager(ms, db_path) == Append(ms, DatabaseManager(db_path))

\* _get_connection on manager m: connects when the thread's attribute is
\* missing or None
get_connection(ms, cs, m) ==
    IF ~ms[m].local.attribute \/ ~ms[m].local.value.some
    THEN [managers |-> [ms EXCEPT ![m].local = Attribute(Some(Len(cs) + 1))],
          connections |-> Append(cs, [manager |-> m, closed |-> FALSE])]
    ELSE [managers |-> ms, connections |-> cs]

InitManagers ==
    /\ pc = "Idle"
    /\ RequestIdle
    /\ ServerIdle
    /\ PlanIdle
    /\ CostIdle
    /\ ExtractIdle
    /\ ConnIdle

\* list_all_tables (src/src/main.py 41-45): get_sqlite_service builds a
\* SQLiteService, whose ExplorationService asks get_db_manager for its
\* manager; get_all_tables then enters get_cursor on it
ListTablesRequest(db_path) ==
    /\ Len(managers) < MaxManagers
    /\ Len(connections) < MaxConnections
    /\ \E ms \in {get_db_manager(managers, db_path)} :
       \E r \in {get_connection(ms, connections, Len(ms))} :
           /\ managers' = r.managers
           /\ connections' = r.connections
    /\ raised' = None
    /\ UNCHANGED <<pc, request, table_name, table_schema, response>>
    /\ UNCHANGED <<serverVars, planVars, costVars, extractVars, local, using>>

\* test_connection (src/src/main.py 92-97, sqllite_service.py 136-162): the
\* service is built as above and test_connection asks get_db_manager for a
\* manager of its own, on which it enters get_cursor
TestConnectionRequest(db_path) ==
    /\ Len(managers) + 2 <= MaxManagers
    /\ Len(connections) < MaxConnections
    /\ \E ms \in {get_db_manager(get_db_manager(managers, db_path), db_path)} :
       \E r \in {get_connection(ms, connections, Len(ms))} :
           /\ managers' = r.managers
           /\ connections' = r.connections
    /\ raised' = None
    /\ UNCHANGED <<pc, request, table_name, table_schema, response>>
    /\ UNCHANGED <<serverVars, planVars, costVars, extractVars, local, using>>

\* a query on manager m: get_cursor, the statement, cursor.close()
ManagerQuery(m) ==
    /\ \E r \in {get_connection(managers, connections, m)} :
           /\ Len(r.connections) <= MaxConnections
           /\ managers' = r.managers
           /\ connections' = r.connections
    /\ raised' = None
    /\ UNCHANGED <<pc, request, table_name, table_schema, response>>
    /\ UNCHANGED <<serverVars, planVars, costVars, extractVars, local, using>>

\* close() on manager m (database.py 195-200): nothing without the
\* attribute; with it, self._local.connection.close() and the attribute set
\* to None, and None has no close()
ManagerClose(m) ==
    /\ IF ~managers[m].local.attribute
       THEN /\ raised' = None
            /\ UNCHANGED <<managers, connections>>
       ELSE IF managers[m].local.value.some
       THEN /\ connections' = [connections EXCEPT
                                   ![managers[m].local.value.val].closed = TRUE]
            /\ managers' = [managers EXCEPT ![m].local = Attribute(None)]
            /\ raised' = None
       ELSE /\ raised' = Some(AttributeErrorNoneClose)
            /\ UNCHANGED <<managers, connections>>
    /\ UNCHANGED <<pc, request, table_name, table_schema, response>>
    /\ UNCHANGED <<serverVars, planVars, costVars, extractVars, local, using>>

NextManagers ==
    \/ \E db_path \in DbPaths : ListTablesRequest(db_path)
    \/ \E db_path \in DbPaths : TestConnectionRequest(db_path)
    \/ \E m \in 1..Len(managers) : ManagerQuery(m)
    \/ \E m \in 1..Len(managers) : ManagerClose(m)

SpecManagers == InitManagers /\ [][NextManagers]_vars

\* the connections of the managers of a path that are open
OpenConnectionsTo(db_path) ==
    {c \in 1..Len(connections) :
        /\ ~connections[c].closed
        /\ managers[connections[c].manager].db_path = db_path}

\* C29: get_db_manager gives one manager per database path, however many
\* requests were handled, and the thread has at most one open connection to
\* a path
C29_OneManagerPerPath ==
    /\ \A i, j \in 1..Len(managers) :
          managers[i].db_path = managers[j].db_path => i = j
    /\ \A db_path \in DbPaths : Cardinality(OpenConnectionsTo(db_path)) <= 1

\* C29 for one manager: it has at most one open connection, the one its
\* attribute holds
C29_OneConnectionPerManager ==
    \A m \in 1..Len(managers) :
        \A c \in 1..Len(connections) :
            (connections[c].manager = m /\ ~connections[c].closed) =>
                managers[m].local = Attribute(Some(c))

\* C30: close() never raises, whatever queries and close() calls came
\* before it
C30_CloseNeverRaises == raised = None

\* C30 for the connections: after close() the manager has no open
\* connection, and a manager's attribute never holds a closed connection,
\* so the query after a close() runs on a connection opened after it
C30_CloseAndReopen ==
    \A m \in 1..Len(managers) :
        /\ (managers[m].local.attribute /\ ~managers[m].local.value.some) =>
              \A c \in 1..Len(connections) :
                  connections[c].manager = m => connections[c].closed
        /\ (managers[m].local.attribute /\ managers[m].local.value.some) =>
              /\ ~connections[managers[m].local.value.val].closed
              /\ connections[managers[m].local.value.val].manager = m

====
